---- MODULE Spec2Model ----
(***************************************************************************)
(* Verification model of the connection-resilience engine of               *)
(* xiaozhi-client: the browser-side ConnectionManager (one WebSocket's     *)
(* lifecycle, message correlation and automatic reconnection) and the      *)
(* RestartStateMachine that drives the restart protocol over it.           *)
(*                                                                         *)
(* Execution model.  The code runs on a JavaScript event loop: one action  *)
(* of the model is one macrotask (an API call made by the owner, a timer   *)
(* callback, or a socket event) together with every promise reaction it    *)
(* triggers (the microtask queue is drained before the next macrotask).    *)
(* Pure operators take the whole program state as a record w and return    *)
(* the state after the code they model; promise reactions are appended to  *)
(* w.micro and executed, in order, by Drain.                               *)
(***************************************************************************)
EXTENDS Integers, Sequences, FiniteSets, TLC

VARIABLES
  cm,        \* the ConnectionManager instance (its private fields)
  sockets,   \* the WebSocket objects that can still fire an event, by id
  timers,    \* pending reconnect timers (setTimeout handles not yet fired)
  waits,     \* every waitForMessage call made so far (its closure state)
  sm,        \* the RestartStateMachine instance and its in-flight async calls
  storage,   \* localStorage["restart-state-machine"]
  obs,       \* what callers and listeners have observed (history)
  lim,       \* the bounds of the specification being explored (constant)
  hc,        \* the HealthChecker instance, its calls in progress, the clock
  single,    \* the static fields of ConnectionManagerSingleton
  coord      \* the endpoint coordinator: its endpoints and selection order

vars ==
  <<cm, sockets, timers, waits, sm, storage, obs, lim, hc, single, coord>>

----------------------------------------------------------------------------
(* Bounds of the model *)

MaxSockets == 2            \* WebSocket objects alive at the same time
MaxTimers == 2             \* reconnect timers pending at the same time
MaxPort == 2               \* ports are 1..MaxPort
MaxWaits == 2              \* waitForMessage calls per page
MsgSockets == 1            \* sockets alive where messages are modelled
MsgTimers == 1             \* reconnect timers where messages are modelled
MaxReconnectAttempts == 1  \* config.maxReconnectAttempts

NULL == 0

(* Who awaits a promise: the owner of the instance, the reconnect timer    *)
(* callback, or (a positive number) a phase handler of the state machine.  *)
BY_USER == 0
BY_TIMER == -1

(* Message types seen on the wire; "" is a payload without a type tag. *)
MsgTypes == {"restartVerificationResponse", "restartStatus"}

----------------------------------------------------------------------------
(* Small helpers *)

Range(f) == {f[i] : i \in DOMAIN f}

RECURSIVE SelectSeqNot(_, _)
SelectSeqNot(s, x) ==
  IF s = <<>> THEN <<>>
  ELSE IF Head(s) = x THEN SelectSeqNot(Tail(s), x)
       ELSE <<Head(s)>> \o SelectSeqNot(Tail(s), x)

SmallestUnused(used) == CHOOSE n \in 1..(Cardinality(used) + 1) :
                           n \notin used /\ \A m \in 1..(n - 1) : m \in used

Push(w, k) == [w EXCEPT !.micro = Append(@, k)]

----------------------------------------------------------------------------
(* ConnectionManager *)

(* ws.readyState; a socket that fired its close event is CLOSED for good   *)
(* and is dropped from `sockets'.                                          *)
readyState(w, s) ==
  IF s \in DOMAIN w.sockets THEN w.sockets[s].readyState ELSE "CLOSED"

isConnected(w) ==
  /\ w.cm.connectionState = "connected"
  /\ w.cm.currentConnection # NULL
  /\ readyState(w, w.cm.currentConnection) = "OPEN"

(* WebSocket.close(): an open or connecting socket starts closing. *)
wsClose(w, s) ==
  IF readyState(w, s) \in {"CONNECTING", "OPEN"}
  THEN [w EXCEPT !.sockets[s].readyState = "CLOSING"]
  ELSE w

(* The platform sets readyState to CLOSED before it fires the last events. *)
wsClosed(w, s) == [w EXCEPT !.sockets = [i \in (DOMAIN @) \ {s} |-> @[i]]]

addMessageHandler(w, type, h) ==
  IF type \in DOMAIN w.cm.messageHandlers
  THEN IF h \in Range(w.cm.messageHandlers[type]) THEN w
       ELSE [w EXCEPT !.cm.messageHandlers[type] = Append(@, h)]
  ELSE [w EXCEPT !.cm.messageHandlers = @ @@ (type :> <<h>>)]

(* removeMessageHandler() without `if (handlers.size === 0) delete'. *)
removeMessageHandlerKeepsSet(w, type, h) ==
  IF type \notin DOMAIN w.cm.messageHandlers THEN w
  ELSE [w EXCEPT !.cm.messageHandlers[type] = SelectSeqNot(@, h)]

removeMessageHandler(w, type, h) ==
  IF type \notin DOMAIN w.cm.messageHandlers THEN w
  ELSE LET rest == SelectSeqNot(w.cm.messageHandlers[type], h) IN
       IF rest = <<>>
       THEN [w EXCEPT !.cm.messageHandlers =
               [t \in (DOMAIN @) \ {type} |-> @[t]]]
       ELSE [w EXCEPT !.cm.messageHandlers[type] = rest]

removeAllMessageHandlers(w, type) ==
  IF type # ""
  THEN [w EXCEPT !.cm.messageHandlers =
          [t \in (DOMAIN @) \ {type} |-> @[t]]]
  ELSE [w EXCEPT !.cm.messageHandlers = <<>>]

(* disconnect()'s loop without its clearTimeout. *)
RejectClosedKeepsTimer(w, id) ==
  Push([w EXCEPT !.waits[id].status = "closed",
                 !.waits[id].settles = @ + 1,
                 !.waits[id].removals = @ + 1],
       [k |-> "waitDone", id |-> id, ok |-> FALSE])

(* Reject one pending waitForMessage entry from disconnect()'s loop. *)
RejectClosed(w, id) ==
  Push([w EXCEPT !.waits[id].timer = FALSE,
                 !.waits[id].status = "closed",
                 !.waits[id].settles = @ + 1,
                 !.waits[id].removals = @ + 1],
       [k |-> "waitDone", id |-> id, ok |-> FALSE])

(* disconnect()'s loop leaving after its first entry. *)
RejectOnlyFirstPending(w, ids) ==
  IF ids = {} THEN w
  ELSE RejectClosed(w, CHOOSE i \in ids : \A j \in ids : i <= j)

RECURSIVE RejectAllPending(_, _)
RejectAllPending(w, ids) ==
  IF ids = {} THEN w
  ELSE LET id == CHOOSE i \in ids : \A j \in ids : i <= j IN
       RejectAllPending(RejectClosed(w, id), ids \ {id})

disconnect(w) ==
  LET w1 == [w EXCEPT !.timers = @ \ {w.cm.reconnectTimer},
                      !.cm.reconnectTimer = NULL]
      w2 == [RejectAllPending(w1, w1.cm.pendingMessages)
               EXCEPT !.cm.pendingMessages = {}]
      w3 == IF w2.cm.currentConnection # NULL
            THEN [(IF readyState(w2, w2.cm.currentConnection) = "OPEN"
                   THEN wsClose(w2, w2.cm.currentConnection) ELSE w2)
                    EXCEPT !.cm.currentConnection = NULL]
            ELSE w2
  IN [w3 EXCEPT !.cm.connectionState = "disconnected",
                !.cm.currentPort = NULL,
                !.cm.reconnectAttempts = 0]

(* connect(port) without its `isConnected() && currentPort === port' test. *)
connectAlwaysReconnects(w, port, by) ==
  LET w1 == disconnect(w)
      w2 == [w1 EXCEPT !.cm.currentPort = port,
                       !.cm.connectionState = "connecting"]
      s == SmallestUnused(DOMAIN w.sockets \cup {w.cm.currentConnection})
  IN IF w.env.ctorThrows
     THEN Push([w2 EXCEPT !.cm.connectionState = "failed"],
               [k |-> "connectDone", by |-> by, ok |-> FALSE,
                handle |-> NULL, existing |-> FALSE])
     ELSE [w2 EXCEPT !.sockets = @ @@ (s :>
                        [readyState |-> "CONNECTING", opened |-> FALSE,
                         timeout |-> TRUE, pending |-> TRUE, by |-> by]),
                     !.cm.currentConnection = s]

(* connect(port) up to the point where the promise is returned.  `by' is   *)
(* the caller awaiting the promise (BY_USER, BY_TIMER or the id of a phase *)
(* handler); w.env.ctorThrows says whether `new WebSocket(url)' throws.    *)
connect(w, port, by) ==
  IF isConnected(w) /\ w.cm.currentPort = port
  THEN Push(w, [k |-> "connectDone", by |-> by, ok |-> TRUE,
                handle |-> w.cm.currentConnection, existing |-> TRUE])
  ELSE LET w1 == disconnect(w)
           w2 == [w1 EXCEPT !.cm.currentPort = port,
                            !.cm.connectionState = "connecting"]
           s == SmallestUnused(DOMAIN w.sockets \cup {w.cm.currentConnection})
       IN IF w.env.ctorThrows
          THEN Push([w2 EXCEPT !.cm.connectionState = "failed"],
                    [k |-> "connectDone", by |-> by, ok |-> FALSE,
                     handle |-> NULL, existing |-> FALSE])
          ELSE [w2 EXCEPT !.sockets = @ @@ (s :>
                             [readyState |-> "CONNECTING", opened |-> FALSE,
                              timeout |-> TRUE, pending |-> TRUE, by |-> by]),
                          !.cm.currentConnection = s]

(* Settle the promise of the connect() call that created socket s. *)
SettleConnect(w, s, ok) ==
  IF ~w.sockets[s].pending THEN w
  ELSE Push([w EXCEPT !.sockets[s].pending = FALSE,
                      !.sockets[s].by = BY_USER],
            [k |-> "connectDone", by |-> w.sockets[s].by, ok |-> ok,
             handle |-> IF ok THEN s ELSE NULL, existing |-> FALSE])

(* The connectTimeout callback of the connect() call that created s. *)
onConnectTimeout(w, s) ==
  LET w1 == [w EXCEPT !.sockets[s].timeout = FALSE]
      w2 == IF w1.cm.currentConnection # NULL
            THEN wsClose(w1, w1.cm.currentConnection) ELSE w1
  IN SettleConnect([w2 EXCEPT !.cm.connectionState = "failed"], s, FALSE)

onopen(w, s) ==
  SettleConnect([w EXCEPT !.sockets[s].timeout = FALSE,
                          !.sockets[s].opened = TRUE,
                          !.cm.connectionState = "connected",
                          !.cm.reconnectAttempts = 0], s, TRUE)

onerror(w, s) ==
  SettleConnect([w EXCEPT !.sockets[s].timeout = FALSE,
                          !.cm.connectionState = "failed"], s, FALSE)

(* handleUnexpectedDisconnect() without its ceiling test. *)
handleUnexpectedDisconnectDropsCeiling(w) ==
  LET t == SmallestUnused(w.timers \cup {w.cm.reconnectTimer}) IN
  [w EXCEPT !.cm.connectionState = "reconnecting",
            !.cm.reconnectAttempts = @ + 1,
            !.cm.reconnectTimer = t,
            !.timers = @ \cup {t}]

handleUnexpectedDisconnect(w) ==
  IF w.cm.reconnectAttempts >= MaxReconnectAttempts
  THEN [w EXCEPT !.cm.connectionState = "failed"]
  ELSE LET t == SmallestUnused(w.timers \cup {w.cm.reconnectTimer}) IN
       [w EXCEPT !.cm.connectionState = "reconnecting",
                 !.cm.reconnectAttempts = @ + 1,
                 !.cm.reconnectTimer = t,
                 !.timers = @ \cup {t}]

onclose(w, s) ==
  IF w.cm.connectionState = "connected"
  THEN handleUnexpectedDisconnect([w EXCEPT !.obs.episode = 0])
  ELSE [w EXCEPT !.cm.connectionState = "disconnected"]

(* waitForMessage(type): registers the pending entry, its deadline timer   *)
(* and the one-shot handler; the handler of call number id is named id.    *)
waitForMessage(w, type, by) ==
  LET id == Len(w.waits) + 1
      w1 == [w EXCEPT !.waits = Append(@,
                         [type |-> type, status |-> "pending", timer |-> TRUE,
                          by |-> by, settles |-> 0, removals |-> 0,
                          matched |-> 0, restarted |-> FALSE]),
                      !.cm.pendingMessages = @ \cup {id}]
  IN addMessageHandler(w1, type, id)

(* The deadline timer of waitForMessage call id fires. *)
onWaitTimeout(w, id) ==
  Push([w EXCEPT !.waits[id].timer = FALSE,
                 !.waits[id].status = "timeout",
                 !.waits[id].settles = @ + 1,
                 !.waits[id].removals =
                    IF id \in w.cm.pendingMessages THEN @ + 1 ELSE @,
                 !.cm.pendingMessages = @ \ {id}],
       [k |-> "waitDone", id |-> id, ok |-> FALSE])

(* The one-shot handler of waitForMessage call id, invoked with msg. *)
oneShotHandler(w, id, msg) ==
  IF msg.type = w.waits[id].type /\ id \in w.cm.pendingMessages
  THEN Push(removeMessageHandler(
              [w EXCEPT !.waits[id].timer = FALSE,
                        !.waits[id].status = "resolved",
                        !.waits[id].settles = @ + 1,
                        !.waits[id].removals = @ + 1,
                        !.waits[id].restarted = msg.restarted,
                        !.cm.pendingMessages = @ \ {id}],
              w.waits[id].type, id),
            [k |-> "waitDone", id |-> id, ok |-> TRUE])
  ELSE w

(* The handlers the owner registers with addMessageHandler(), and those of *)
(* them that throw when they are called; the one-shot handler of           *)
(* waitForMessage call id is named id.                                     *)
OwnerHandlers == {-1, -2}
ThrowingHandlers == {-1}

(* handler(message) for one handler of the set: obs.handled keeps the      *)
(* handlers called during the current task and the type tag of the message *)
(* they were called with, in the order of the calls.                       *)
CallHandler(w, h, msg) ==
  LET w1 == [w EXCEPT !.obs.handled =
                        Append(@, [handler |-> h, type |-> msg.type])] IN
  IF h \in OwnerHandlers THEN w1 ELSE oneShotHandler(w1, h, msg)

(* The loop of handleMessage without the try/catch around each call. *)
RestAfterUncaught(hs) ==
  IF Head(hs) \in ThrowingHandlers THEN <<>> ELSE Tail(hs)

(* The handlers still to be called once the first of hs has returned or    *)
(* thrown: what it throws is caught and logged.                            *)
RestAfter(hs) == Tail(hs)

RECURSIVE InvokeHandlers(_, _, _)
InvokeHandlers(w, hs, msg) ==
  IF hs = <<>> THEN w
  ELSE LET h == Head(hs)
           live == /\ msg.type \in DOMAIN w.cm.messageHandlers
                   /\ h \in Range(w.cm.messageHandlers[msg.type])
       IN InvokeHandlers(IF live THEN CallHandler(w, h, msg) ELSE w,
                         RestAfter(hs), msg)

(* Count, for every call still waiting for this type, one more matching    *)
(* message dispatched since it was registered.                             *)
NoteMatch(w, type) ==
  [w EXCEPT !.waits = [i \in DOMAIN @ |->
      IF @[i].type = type /\ @[i].matched < 2
      THEN [@[i] EXCEPT !.matched = @ + 1] ELSE @[i]]]

handleMessage(w, msg) ==
  IF msg.type = "" THEN w
  ELSE IF msg.type \in DOMAIN w.cm.messageHandlers
       THEN InvokeHandlers(NoteMatch(w, msg.type),
                           w.cm.messageHandlers[msg.type], msg)
       ELSE NoteMatch(w, msg.type)

----------------------------------------------------------------------------
(* RestartStateMachine *)

MaxAttempts == 2           \* context.maxAttempts
MaxRestarts == 1           \* accepted restart() calls (RestartSpec)

NoContext == [none |-> TRUE]
NoBlob == [none |-> TRUE]

ErrNoContext == "context not initialised"
ErrInitUnavailable == "send restart request failed: connection unavailable"
ErrInitSend == "send restart request failed: send failed"
ErrReconnectExhausted == "reconnect failed after maxAttempts attempts"
ErrTypeError == "TypeError: context is null"
ErrVerifyTimeout == "verification failed: wait for message timed out"
ErrVerifyClosed == "verification failed: connection closed"
ErrVerifyFailed == "verification failed: unhealthy or not restarted"
ErrVerifyType == "verification failed: TypeError"

(* Callers of transition(): a timer or restoreState() (nobody awaits),     *)
(* restart() (its promise settles on return), or a phase handler (id > 0). *)
FROM_NOBODY == 0
FROM_RESTART == -1

Frame(w, id) == CHOOSE f \in w.sm.frames : f.id = id

HasFrame(w, id) == \E f \in w.sm.frames : f.id = id

PutFrame(w, f) ==
  [w EXCEPT !.sm.frames = {g \in @ : g.id # f.id} \cup {f}]

(* The listeners whose callback throws. *)
ThrowingListeners == {1}

(* The listeners a round of calls reaches when a throw ends the loop. *)
UpToFirstThrow(listeners) ==
  {listeners[i] : i \in {j \in DOMAIN listeners :
                          \A k \in 1..(j - 1) :
                            listeners[k] \notin ThrowingListeners}}

(* notifyListeners() without the try/catch around each call. *)
notifyListenersUncaught(w) ==
  IF w.sm.context = NoContext THEN w
  ELSE [w EXCEPT !.obs.notified = [state |-> w.sm.state,
                                   error |-> w.sm.context.error,
                                   attempts |-> w.sm.context.attempts],
                 !.obs.invoked = @ \cup UpToFirstThrow(w.sm.listeners)]

(* notifyListeners(): every listener of the set is called, in insertion    *)
(* order, with (state, context); what a listener throws is caught and      *)
(* logged.  obs.notified holds the arguments of the last round and         *)
(* obs.invoked the listeners called in the current task.                   *)
notifyListeners(w) ==
  IF w.sm.context = NoContext THEN w
  ELSE [w EXCEPT !.obs.notified = [state |-> w.sm.state,
                                   error |-> w.sm.context.error,
                                   attempts |-> w.sm.context.attempts],
                 !.obs.invoked = @ \cup Range(w.sm.listeners)]

(* JSON.stringify followed by JSON.parse: an Error object has no           *)
(* enumerable property and comes back as the empty object.                 *)
JsonRoundTrip(context) ==
  [context EXCEPT !.error = IF @ = "" THEN "" ELSE "{}"]

(* persistState() that keeps a blob already stored. *)
persistStateOnce(w) ==
  IF w.sm.context = NoContext \/ w.storage # NoBlob THEN w
  ELSE [w EXCEPT !.storage = [state |-> w.sm.state,
                              context |-> JsonRoundTrip(w.sm.context)]]

persistState(w) ==
  IF w.sm.context = NoContext THEN w
  ELSE [w EXCEPT !.storage = [state |-> w.sm.state,
                              context |-> JsonRoundTrip(w.sm.context)]]

clearPersistedState(w) == [w EXCEPT !.storage = NoBlob]

reset(w) ==
  clearPersistedState([w EXCEPT !.sm.state = "idle",
                                !.sm.context = NoContext,
                                !.sm.transitionPromise = NULL])

(* The phase handler of doTransition call id returns normally. *)
Finish(w, id) == Push(w, [k |-> "frameDone", id |-> id])

(* The catch block of doTransition is entered: obs.thrown keeps, for the    *)
(* current task, the phase whose handler threw, the error, and whether     *)
(* there was a context to attach it to.                                    *)
Caught(w, id, err) ==
  [w EXCEPT !.obs.thrown = Append(@, [st |-> Frame(w, id).st, err |-> err,
                                      context |-> w.sm.context # NoContext])]

(* The catch block of doTransition without `this.state = FAILED'. *)
ThrowKeepsPhase(w, id, err) ==
  LET newState == Frame(w, id).st
      w0 == Caught(w, id, err)
      w1 == IF w0.sm.context # NoContext
            THEN [w0 EXCEPT !.sm.context.error = err] ELSE w0
      w2 == IF newState # "failed"
            THEN [persistState(notifyListeners(
                    [w1 EXCEPT !.obs.happy = FALSE]))
                    EXCEPT !.sm.resetTimers = @ + 1]
            ELSE w1
  IN Finish(w2, id)

(* The phase handler of doTransition call id throws err: the catch block   *)
(* of doTransition, after which doTransition returns normally.             *)
Throw(w, id, err) ==
  LET newState == Frame(w, id).st
      w0 == Caught(w, id, err)
      w1 == IF w0.sm.context # NoContext
            THEN [w0 EXCEPT !.sm.context.error = err] ELSE w0
      w2 == IF newState # "failed"
            THEN [persistState(notifyListeners(
                    [w1 EXCEPT !.sm.state = "failed", !.obs.happy = FALSE]))
                    EXCEPT !.sm.resetTimers = @ + 1]
            ELSE w1
  IN Finish(w2, id)

(* sendMessage(message) without its `!this.isConnected()' test. *)
sendMessageUnchecked(w) ==
  IF w.env.sendThrows THEN "failed" ELSE "sent"

(* connectionManager.sendMessage(message): "unavailable" and "failed" are  *)
(* the two errors it throws; sendThrows says whether JSON.stringify or     *)
(* ws.send throws.                                                         *)
sendMessage(w) ==
  IF ~isConnected(w) THEN "unavailable"
  ELSE IF w.env.sendThrows THEN "failed" ELSE "sent"

(* handleInitiating reaches `sendMessage({type: "restartService", ...})': *)
(* obs.asked keeps how each such call of the current task ended.           *)
Ask(w) == [w EXCEPT !.obs.asked = Append(@, sendMessage(w))]

(* handleInitiating without its own `isConnected()' test. *)
handleInitiatingUnchecked(w, id) ==
  IF w.sm.context = NoContext THEN Throw(w, id, ErrNoContext)
  ELSE IF sendMessage(w) # "sent" THEN Throw(Ask(w), id, ErrInitSend)
  ELSE Finish([Ask(w) EXCEPT !.sm.restartingTimers = @ + 1], id)

handleInitiating(w, id) ==
  IF w.sm.context = NoContext THEN Throw(w, id, ErrNoContext)
  ELSE IF ~isConnected(w) THEN Throw(w, id, ErrInitUnavailable)
  ELSE IF sendMessage(w) # "sent" THEN Throw(Ask(w), id, ErrInitSend)
  ELSE Finish([Ask(w) EXCEPT !.sm.restartingTimers = @ + 1], id)

handleRestarting(w, id) ==
  IF w.sm.context = NoContext THEN Throw(w, id, ErrNoContext)
  ELSE PutFrame(disconnect(w), [Frame(w, id) EXCEPT !.pos = "delay"])

(* The loop of handleReconnecting with `attempt <= maxAttempts + 1'. *)
ReconnectIterationOneMore(w, id, attempt) ==
  IF attempt > MaxAttempts + 1 THEN Throw(w, id, ErrReconnectExhausted)
  ELSE IF w.sm.context = NoContext THEN Throw(w, id, ErrTypeError)
  ELSE LET w1 == notifyListeners([w EXCEPT !.sm.context.attempts = attempt])
           w2 == PutFrame(w1, [Frame(w1, id) EXCEPT !.pos = "connect",
                                                    !.attempt = attempt])
       IN connect(w2, Frame(w, id).port, id)

(* One iteration of the for loop of handleReconnecting, up to the await of *)
(* connect(); after the last iteration the loop is left and the handler    *)
(* throws.                                                                 *)
ReconnectIteration(w, id, attempt) ==
  IF attempt > MaxAttempts THEN Throw(w, id, ErrReconnectExhausted)
  ELSE IF w.sm.context = NoContext THEN Throw(w, id, ErrTypeError)
  ELSE LET w1 == notifyListeners([w EXCEPT !.sm.context.attempts = attempt])
           w2 == PutFrame(w1, [Frame(w1, id) EXCEPT !.pos = "connect",
                                                    !.attempt = attempt])
       IN connect(w2, Frame(w, id).port, id)

handleReconnecting(w, id) ==
  IF w.sm.context = NoContext THEN Throw(w, id, ErrNoContext)
  ELSE LET targetPort == IF w.sm.context.targetPort # NULL
                         THEN w.sm.context.targetPort
                         ELSE w.sm.context.currentPort
       IN ReconnectIteration(
            PutFrame(w, [Frame(w, id) EXCEPT !.port = targetPort]), id, 1)

handleVerifying(w, id) ==
  IF w.sm.context = NoContext THEN Throw(w, id, ErrNoContext)
  ELSE LET targetPort == IF w.sm.context.targetPort # NULL
                         THEN w.sm.context.targetPort
                         ELSE w.sm.context.currentPort
           w1 == PutFrame(w, [Frame(w, id) EXCEPT !.port = targetPort,
                                                  !.pos = "waitMsg",
                                                  !.wait = Len(w.waits) + 1])
       IN waitForMessage(w1, "restartVerificationResponse", id)

handleCompleted(w, id) ==
  Finish([notifyListeners(w) EXCEPT !.sm.resetTimers = @ + 1], id)

handleFailed(w, id) ==
  Finish([notifyListeners(w) EXCEPT !.sm.resetTimers = @ + 1], id)

(* doTransition(newState) up to the first point where it has to wait. *)
doTransition(w, id, newState, parent) ==
  LET w1 == [w EXCEPT !.sm.state = newState,
                      !.obs.path = IF w.obs.happy THEN Append(@, newState)
                                   ELSE @,
                      !.sm.frames = @ \cup
                         {[id |-> id, st |-> newState, pos |-> "run",
                           parent |-> parent, attempt |-> 0, port |-> NULL,
                           wait |-> NULL, restarted |-> FALSE]}]
      w2 == persistState(notifyListeners(w1))
  IN CASE newState = "initiating" -> handleInitiating(w2, id)
       [] newState = "restarting" -> handleRestarting(w2, id)
       [] newState = "reconnecting" -> handleReconnecting(w2, id)
       [] newState = "verifying" -> handleVerifying(w2, id)
       [] newState = "completed" -> handleCompleted(w2, id)
       [] newState = "failed" -> handleFailed(w2, id)
       [] OTHER -> Finish(w2, id)

(* The part of transition() after `await this.transitionPromise'. *)
StartTransition(w, newState, parent) ==
  LET id == SmallestUnused({f.id : f \in w.sm.frames}
                           \cup {w.sm.waiters[i].on : i \in DOMAIN w.sm.waiters}
                           \cup {w.sm.transitionPromise})
  IN doTransition([w EXCEPT !.sm.transitionPromise = id], id, newState, parent)

transition(w, newState, parent) ==
  IF w.sm.transitionPromise # NULL
  THEN [w EXCEPT !.sm.waiters = Append(@, [on |-> w.sm.transitionPromise,
                                           newState |-> newState,
                                           parent |-> parent])]
  ELSE StartTransition(w, newState, parent)

(* handleReconnecting resumes after `await connect(targetPort)'. *)
OnConnectDone(w, id, ok) ==
  LET f == Frame(w, id)
      caught == IF f.attempt < MaxAttempts
                THEN PutFrame(w, [f EXCEPT !.pos = "retryDelay"])
                ELSE ReconnectIteration(w, id, f.attempt + 1)
  IN IF ~ok THEN caught
     ELSE IF ~isConnected(w) THEN ReconnectIteration(w, id, f.attempt + 1)
     ELSE IF w.sm.context = NoContext \/ sendMessage(w) # "sent" THEN caught
     ELSE transition(PutFrame(w, [f EXCEPT !.pos = "nested"]),
                     "verifying", id)

(* handleVerifying resumes after `await waitForMessage(...)'. *)
OnWaitDone(w, id, wid) ==
  LET f == Frame(w, id) IN
  CASE w.waits[wid].status = "resolved" ->
         PutFrame(w, [f EXCEPT !.pos = "health",
                               !.restarted = w.waits[wid].restarted])
    [] w.waits[wid].status = "timeout" -> Throw(w, id, ErrVerifyTimeout)
    [] OTHER -> Throw(w, id, ErrVerifyClosed)

(* localStorage.setItem("xiaozhi-ws-url", ...) when the restart moved the *)
(* service to another port; sm.wsUrl is the port of the stored address.    *)
StoreAddress(w) ==
  IF w.sm.context.targetPort # NULL
     /\ w.sm.context.targetPort # w.sm.context.currentPort
  THEN [w EXCEPT !.sm.wsUrl = w.sm.context.targetPort]
  ELSE w

(* handleVerifying accepting a healthy probe without `restarted'. *)
OnHealthDoneHealthOnly(w, id, isHealthy) ==
  LET f == Frame(w, id) IN
  IF isHealthy
  THEN IF w.sm.context = NoContext THEN Throw(w, id, ErrVerifyType)
       ELSE transition(StoreAddress(PutFrame(w, [f EXCEPT !.pos = "nested"])),
                       "completed", id)
  ELSE Throw(w, id, ErrVerifyFailed)

(* handleVerifying resumes after `await checkServiceHealth(targetPort)'. *)
OnHealthDone(w, id, isHealthy) ==
  LET f == Frame(w, id) IN
  IF isHealthy /\ f.restarted
  THEN IF w.sm.context = NoContext THEN Throw(w, id, ErrVerifyType)
       ELSE transition(StoreAddress(PutFrame(w, [f EXCEPT !.pos = "nested"])),
                       "completed", id)
  ELSE Throw(w, id, ErrVerifyFailed)

(* transition() returns to its caller. *)
OnReturn(w, parent) ==
  IF parent = FROM_RESTART
  THEN [w EXCEPT !.obs.outcome = "fulfilled"]
  ELSE IF parent > 0 /\ HasFrame(w, parent) THEN Finish(w, parent)
  ELSE w

RECURSIVE WakeWaiters(_, _, _)
WakeWaiters(w, id, i) ==
  IF i > Len(w.sm.waiters) THEN w
  ELSE IF w.sm.waiters[i].on # id THEN WakeWaiters(w, id, i + 1)
  ELSE LET x == w.sm.waiters[i]
           rest == [j \in 1..(Len(w.sm.waiters) - 1) |->
                      IF j < i THEN w.sm.waiters[j] ELSE w.sm.waiters[j + 1]]
       IN WakeWaiters(StartTransition([w EXCEPT !.sm.waiters = rest],
                                      x.newState, x.parent), id, i)

(* The promise of doTransition call id resolves: transition()'s finally    *)
(* block runs, then every transition() call that was awaiting the promise  *)
(* goes on to its own doTransition, and the caller resumes.                *)
OnFrameDone(w, id) ==
  LET parent == Frame(w, id).parent
      w1 == [w EXCEPT !.sm.frames = {g \in @ : g.id # id},
                      !.sm.transitionPromise = NULL]
  IN WakeWaiters(Push(w1, [k |-> "return", parent |-> parent]), id, 1)

RunMicro(w, m) ==
  CASE m.k = "connectDone" ->
         IF m.by = BY_TIMER
         THEN (IF m.ok THEN w ELSE handleUnexpectedDisconnect(w))
         ELSE IF m.by = BY_USER
         THEN [w EXCEPT !.obs.seen =
                 [k |-> "connect", ok |-> m.ok, handle |-> m.handle,
                  existing |-> m.existing,
                  state |-> w.cm.connectionState]]
         ELSE OnConnectDone(w, m.by, m.ok)
    [] m.k = "waitDone" ->
         IF w.waits[m.id].by = BY_USER THEN w
         ELSE OnWaitDone(w, w.waits[m.id].by, m.id)
    [] m.k = "frameDone" -> OnFrameDone(w, m.id)
    [] m.k = "return" -> OnReturn(w, m.parent)

RECURSIVE Drain(_)
Drain(w) ==
  IF w.micro = <<>> THEN w
  ELSE Drain(RunMicro([w EXCEPT !.micro = Tail(@)], Head(w.micro)))

----------------------------------------------------------------------------
(* State *)

(* What the owner saw of its own calls is kept for one macrotask. *)
Nothing == [k |-> "none"]

World(ctorThrows, sendThrows) ==
  [cm |-> cm, sockets |-> sockets, timers |-> timers, waits |-> waits,
   sm |-> sm, storage |-> storage, obs |-> [obs EXCEPT !.seen = Nothing, !.invoked = {}, !.asked = <<>>,
                                          !.thrown = <<>>, !.handled = <<>>],
   lim |-> lim, micro |-> <<>>,
   env |-> [ctorThrows |-> ctorThrows, sendThrows |-> sendThrows]]

Quiet == World(FALSE, FALSE)

(* The state after a macrotask: within the limits of the specification     *)
(* being explored, every variable takes its value from d.                  *)
Commit(d) ==
  /\ Cardinality(DOMAIN d.sockets) <= lim.sockets
  /\ Cardinality(d.timers) <= lim.timers
  /\ Len(d.waits) <= lim.waits
  /\ lim' = lim
  /\ cm' = d.cm
  /\ sockets' = d.sockets
  /\ timers' = d.timers
  /\ waits' = d.waits
  /\ sm' = d.sm
  /\ storage' = d.storage
  /\ obs' = d.obs
  /\ hc' = hc
  /\ single' = [single EXCEPT !.seen = Nothing]
  /\ coord' = coord

(* Run the microtasks the macrotask has queued, then commit. *)
Install(w) == Commit(Drain(w))

InitCM ==
  [currentConnection |-> NULL, connectionState |-> "disconnected",
   messageHandlers |-> <<>>, pendingMessages |-> {},
   currentPort |-> NULL, reconnectAttempts |-> 0, reconnectTimer |-> NULL]

InitSM ==
  [state |-> "idle", context |-> NoContext, transitionPromise |-> NULL,
   frames |-> {}, waiters |-> <<>>, restartingTimers |-> 0, resetTimers |-> 0,
   listeners |-> <<>>, wsUrl |-> NULL]

NoNotification == [state |-> "none", error |-> "", attempts |-> 0]

(* episode: connect() calls made by reconnect timers since the last       *)
(*   unexpected close; notified: the last call a state-change listener     *)
(*   received; lastCall/outcome: how the last restart() call was answered  *)
(*   and how the promise of the last accepted one settled; happy/path: the *)
(*   phases entered since a restart was accepted on a live connection, as  *)
(*   long as the remote and the owner did nothing to disturb it; seen: how *)
(*   a connect() or sendMessage() call of the owner was answered during    *)
(*   the last macrotask.                                                   *)
InitObs ==
  [episode |-> 0, notified |-> NoNotification, lastCall |-> "none",
   outcome |-> "none", restarts |-> 0, restores |-> 0,
   happy |-> FALSE, path |-> <<>>, seen |-> Nothing, invoked |-> {},
   asked |-> <<>>, thrown |-> <<>>, handled |-> <<>>]

(* instance: the ConnectionManager held (instances are numbered in the    *)
(*   order `new ConnectionManager' made them); live: the instances made    *)
(*   and not yet destroyed; connectTimeout: the configuration the held     *)
(*   instance was made with; seen: what the last call returned.            *)
InitSingle ==
  [instance |-> NULL, isInitialized |-> FALSE, made |-> 0, live |-> {},
   connectTimeout |-> NULL, seen |-> Nothing]

MaxEndpoints == 3          \* configured endpoints are 1..MaxEndpoints

(* healthy: the health-check loop's verdict on each configured endpoint;   *)
(*   order: the endpoints from least to most recently selected;            *)
(*   picks: the selections made since the verdicts last changed;           *)
(*   seen: what the last selectBestConnection() returned.                  *)
InitCoord ==
  [healthy |-> [e \in 1..MaxEndpoints |-> FALSE],
   order |-> [e \in 1..MaxEndpoints |-> e],
   picks |-> <<>>, seen |-> Nothing]

MaxHealthPort == 2         \* probed ports are 1..MaxHealthPort

HealthPorts == 1..MaxHealthPort

NoEntry == [none |-> TRUE]

(* A HealthChecker just constructed: an empty cache, no call in progress;  *)
(* cleared: the ports whose entry clearCache() removed and for which       *)
(* getHealthStatus() has not been called since.                            *)
InitHC ==
  [now |-> 0, cache |-> [p \in HealthPorts |-> NoEntry], fetches |-> {},
   calls |-> {}, cleared |-> [p \in HealthPorts |-> FALSE],
   seen |-> Nothing]

Fresh ==
  /\ cm = InitCM
  /\ sockets = <<>>
  /\ timers = {}
  /\ waits = <<>>
  /\ sm = InitSM
  /\ storage = NoBlob
  /\ obs = InitObs
  /\ hc = InitHC
  /\ single = InitSingle
  /\ coord = InitCoord

ConnLim ==
  [sockets |-> MaxSockets, timers |-> MaxTimers, waits |-> 0,
   ports |-> MaxPort, restarts |-> 0, restores |-> 0,
   calls |-> 0, probes |-> 0, ticks |-> 0, hports |-> 0,
   listeners |-> 0]

Init == Fresh /\ lim = ConnLim


----------------------------------------------------------------------------
(* Calls made by the owner of the ConnectionManager *)

(* Something other than the restart in progress acts: the scenario of an  *)
(* undisturbed restart is over.                                            *)
Disturb(w) == [w EXCEPT !.obs.happy = FALSE]

Connect(port) ==
  \E ctorThrows \in BOOLEAN :
    LET w == Disturb(World(ctorThrows, FALSE)) IN
    Install(connect([w EXCEPT !.obs.episode = 0], port, BY_USER))

Disconnect ==
  Install(disconnect([Disturb(Quiet) EXCEPT !.obs.episode = 0]))

WaitForMessage(type) ==
  Install(waitForMessage(Quiet, type, BY_USER))

(* sendMessage(message) called by the owner: `to' is the socket whose     *)
(* send() was reached.                                                     *)
SendMessage ==
  \E sendThrows \in BOOLEAN :
    LET w == World(FALSE, sendThrows)
        result == sendMessage(w)
    IN Install([w EXCEPT !.obs.seen =
                  [k |-> "send", result |-> result, threw |-> sendThrows,
                   to |-> IF result = "unavailable" THEN NULL
                          ELSE w.cm.currentConnection]])

(* Events of the platform: sockets and timers *)

SocketOpens(s) ==
  /\ sockets[s].readyState = "CONNECTING"
  /\ \E sendThrows \in BOOLEAN :
       LET w == IF sendThrows THEN Disturb(World(FALSE, TRUE)) ELSE Quiet IN
       Install(onopen([w EXCEPT !.sockets[s].readyState = "OPEN"], s))

(* The connection fails: the error event and the close event are fired in  *)
(* one task, promise reactions running after each callback.                *)
SocketFails(s) ==
  /\ Install(onclose(wsClosed(Drain(onerror(
       [Disturb(Quiet) EXCEPT !.sockets[s].readyState = "CLOSED"],
       s)), s), s))

(* The connection of an opened socket is closed: close event only. *)
SocketCloses(s) ==
  /\ sockets[s].opened
  /\ sockets[s].readyState \in {"OPEN", "CLOSING"}
  /\ Install(onclose(wsClosed(Quiet, s), s))

ConnectTimeout(s) ==
  /\ sockets[s].timeout
  /\ Install(onConnectTimeout(Disturb(Quiet), s))

(* The callback of reconnect timer t (handleUnexpectedDisconnect). *)
onReconnectTimer(w, t) ==
  LET w1 == [w EXCEPT !.timers = @ \ {t}] IN
  IF w1.cm.currentPort # NULL /\ w1.cm.connectionState = "reconnecting"
  THEN connect([w1 EXCEPT !.obs.episode = @ + 1], w1.cm.currentPort, BY_TIMER)
  ELSE w1

ReconnectTimerFires(t) ==
  /\ t \in timers
  /\ obs.episode <= MaxReconnectAttempts
  /\ \E ctorThrows \in BOOLEAN :
       Install(onReconnectTimer(Disturb(World(ctorThrows, FALSE)), t))

WaitTimeout(id) ==
  /\ waits[id].timer
  /\ Install(onWaitTimeout(Disturb(Quiet), id))

Messages ==
  {[type |-> "", restarted |-> FALSE],
   [type |-> "restartStatus", restarted |-> FALSE],
   [type |-> "restartVerificationResponse", restarted |-> FALSE],
   [type |-> "restartVerificationResponse", restarted |-> TRUE]}

(* ws.onmessage, installed by setupMessageHandling when the socket opens. *)
Message(s, msg) ==
  /\ sockets[s].opened
  /\ sockets[s].readyState = "OPEN"
  /\ Install(handleMessage(
       IF msg.type = "restartVerificationResponse" /\ ~msg.restarted
       THEN Disturb(Quiet) ELSE Quiet, msg))

Next ==
  \/ \E port \in 1..lim.ports : Connect(port)
  \/ Disconnect
  \/ \E s \in DOMAIN sockets : SocketOpens(s)
  \/ \E s \in DOMAIN sockets : SocketFails(s)
  \/ \E s \in DOMAIN sockets : SocketCloses(s)
  \/ \E s \in DOMAIN sockets : ConnectTimeout(s)
  \/ \E t \in timers : ReconnectTimerFires(t)

(* The ConnectionManager's connection lifecycle. *)
Spec == Init /\ [][Next]_vars

MsgLim ==
  [sockets |-> MsgSockets, timers |-> MsgTimers, waits |-> MaxWaits,
   ports |-> 1, restarts |-> 0, restores |-> 0,
   calls |-> 0, probes |-> 0, ticks |-> 0, hports |-> 0,
   listeners |-> 0]

MsgInit == Fresh /\ lim = MsgLim

MsgNext ==
  \/ \E port \in 1..lim.ports : Connect(port)
  \/ Disconnect
  \/ \E type \in MsgTypes : WaitForMessage(type)
  \/ SendMessage
  \/ \E s \in DOMAIN sockets : SocketOpens(s)
  \/ \E s \in DOMAIN sockets : SocketFails(s)
  \/ \E s \in DOMAIN sockets : SocketCloses(s)
  \/ \E s \in DOMAIN sockets : ConnectTimeout(s)
  \/ \E t \in timers : ReconnectTimerFires(t)
  \/ \E id \in DOMAIN waits : WaitTimeout(id)
  \/ \E s \in DOMAIN sockets, msg \in Messages : Message(s, msg)

(* The ConnectionManager's message correlation on top of the lifecycle. *)
MsgSpec == MsgInit /\ [][MsgNext]_vars

(* The type tags a handler is registered under: "" is the empty string,    *)
(* and removeAllMessageHandlers("") is the call without an argument.       *)
HandlerTypes == MsgTypes \cup {""}

AddMessageHandler(type, h) == Install(addMessageHandler(Quiet, type, h))

RemoveMessageHandler(type, h) == Install(removeMessageHandler(Quiet, type, h))

RemoveAllMessageHandlers(type) ==
  Install(removeAllMessageHandlers(Quiet, type))

(* ws.onmessage as Message(s, msg), with the type tag of the payload kept  *)
(* in obs.seen for the task.                                               *)
Dispatch(s, msg) ==
  /\ sockets[s].opened
  /\ sockets[s].readyState = "OPEN"
  /\ Install([handleMessage(Quiet, msg) EXCEPT
               !.obs.seen = [k |-> "message", type |-> msg.type]])

HandlerLim == [MsgLim EXCEPT !.timers = 0, !.waits = 1]

HandlerInit == Fresh /\ lim = HandlerLim

HandlerNext ==
  \/ \E port \in 1..lim.ports : Connect(port)
  \/ Disconnect
  \/ \E s \in DOMAIN sockets : SocketOpens(s)
  \/ \E type \in HandlerTypes, h \in OwnerHandlers :
       AddMessageHandler(type, h)
  \/ \E type \in HandlerTypes, h \in OwnerHandlers :
       RemoveMessageHandler(type, h)
  \/ \E type \in HandlerTypes : RemoveAllMessageHandlers(type)
  \/ \E type \in MsgTypes : WaitForMessage(type)
  \/ \E id \in DOMAIN waits : WaitTimeout(id)
  \/ \E s \in DOMAIN sockets, msg \in Messages : Dispatch(s, msg)

(* The handler registry of the ConnectionManager under the owner's calls. *)
HandlerSpec == HandlerInit /\ [][HandlerNext]_vars

----------------------------------------------------------------------------
(* Calls made by the owner of the RestartStateMachine, and its timers *)

MaxRestores == 1           \* restoreState() calls per page

(* restart() without its `state !== IDLE' test. *)
restartDropsGuard(w, currentPort, targetPort) ==
  transition(
    persistState(
      [w EXCEPT !.sm.context = [currentPort |-> currentPort,
                                targetPort |-> targetPort,
                                startTime |-> "recent", attempts |-> 0,
                                error |-> "",
                                restartId |-> w.obs.restarts + 1],
                !.obs.lastCall = "accepted",
                !.obs.outcome = "pending",
                !.obs.restarts = @ + 1]),
    "initiating", FROM_RESTART)

(* restart(currentPort, targetPort); targetPort NULL is `undefined'. *)
restart(w, currentPort, targetPort) ==
  IF w.sm.state # "idle"
  THEN [w EXCEPT !.obs.lastCall = "refused"]
  ELSE transition(
         persistState(
           [w EXCEPT !.sm.context = [currentPort |-> currentPort,
                                     targetPort |-> targetPort,
                                     startTime |-> "recent", attempts |-> 0,
                                     error |-> "",
                                     restartId |-> w.obs.restarts + 1],
                     !.obs.lastCall = "accepted",
                     !.obs.outcome = "pending",
                     !.obs.restarts = @ + 1]),
         "initiating", FROM_RESTART)

Restart(currentPort, targetPort) ==
  /\ obs.restarts < lim.restarts \/ sm.state # "idle"
  /\ \E sendThrows \in BOOLEAN :
       LET w == World(FALSE, sendThrows)
           undisturbed == /\ [sm EXCEPT !.listeners = <<>>, !.wsUrl = NULL] = InitSM
                          /\ isConnected(w)
                          /\ ~sendThrows /\ obs.restarts = 0
       IN Install(restart([w EXCEPT !.obs.happy = undisturbed,
                                    !.obs.path = <<>>],
                          currentPort, targetPort))

Reset == Install(reset(Disturb(Quiet)))

(* restoreState() without the five-minute window. *)
restoreStateAnyAge(w) ==
  IF w.storage = NoBlob
  THEN [w EXCEPT !.obs.seen = [k |-> "restore", value |-> FALSE]]
  ELSE LET state == w.storage.state
           w1 == [w EXCEPT !.sm.state = state,
                           !.sm.context = w.storage.context,
                           !.obs.seen = [k |-> "restore", value |-> TRUE]]
       IN IF state \notin {"idle", "completed", "failed"}
          THEN transition(w1, state, FROM_NOBODY)
          ELSE w1

(* restoreState(); obs.seen.value is its return value. *)
restoreState(w) ==
  IF w.storage = NoBlob
  THEN [w EXCEPT !.obs.seen = [k |-> "restore", value |-> FALSE]]
  ELSE IF w.storage.context.startTime # "recent"
  THEN clearPersistedState(
         [w EXCEPT !.obs.seen = [k |-> "restore", value |-> FALSE]])
  ELSE LET state == w.storage.state
           w1 == [w EXCEPT !.sm.state = state,
                           !.sm.context = w.storage.context,
                           !.obs.seen = [k |-> "restore", value |-> TRUE]]
       IN IF state \notin {"idle", "completed", "failed"}
          THEN transition(w1, state, FROM_NOBODY)
          ELSE w1

RestoreState ==
  /\ obs.restores < lim.restores
  /\ \E sendThrows \in BOOLEAN :
       Install(restoreState(
         [Disturb(World(FALSE, sendThrows)) EXCEPT !.obs.restores = @ + 1]))

(* The 10 ms timer set by handleInitiating. *)
RestartingTimerFires ==
  /\ sm.restartingTimers > 0
  /\ Install(transition([Quiet EXCEPT !.sm.restartingTimers = @ - 1],
                        "restarting", FROM_NOBODY))

(* handleRestarting resumes after `await this.delay(2000)'. *)
RestartingDelayElapsed(id) ==
  /\ HasFrame(Quiet, id)
  /\ Frame(Quiet, id).pos = "delay"
  /\ Install(transition(
       PutFrame(Quiet, [Frame(Quiet, id) EXCEPT !.pos = "nested"]),
       "reconnecting", id))

(* handleReconnecting resumes after `await this.delay(2000)'. *)
RetryDelayElapsed(id) ==
  /\ HasFrame(Quiet, id)
  /\ Frame(Quiet, id).pos = "retryDelay"
  /\ \E ctorThrows \in BOOLEAN :
       LET w == IF ctorThrows THEN Disturb(World(TRUE, FALSE)) ELSE Quiet IN
       Install(ReconnectIteration(w, id, Frame(w, id).attempt + 1))

(* healthChecker.checkServiceHealth(targetPort) answers; obs.seen keeps    *)
(* the answer and the call it went to.                                     *)
HealthResult(id, isHealthy) ==
  /\ HasFrame(Quiet, id)
  /\ Frame(Quiet, id).pos = "health"
  /\ Install(OnHealthDone(
       [(IF isHealthy THEN Quiet ELSE Disturb(Quiet))
          EXCEPT !.obs.seen = [k |-> "probe", to |-> id,
                               healthy |-> isHealthy]],
       id, isHealthy))

(* The delayed reset set when Completed or Failed was entered. *)
ResetTimerFires ==
  /\ sm.resetTimers > 0
  /\ Install(reset([Quiet EXCEPT !.sm.resetTimers = @ - 1]))

FrameIds == {f.id : f \in sm.frames}

RestartLim ==
  [sockets |-> MsgSockets, timers |-> MsgTimers, waits |-> 1, ports |-> 1,
   restarts |-> MaxRestarts, restores |-> MaxRestores,
   calls |-> 0, probes |-> 0, ticks |-> 0, hports |-> 0,
   listeners |-> 0]

(* What an earlier page of the same program can have left in localStorage: *)
(* nothing, or the {state, context} blob written by persistState in any    *)
(* phase of a restart of port 1 (one of them moving the service to port 2) *)
(* begun within the last five minutes ("recent") or, for one of them,      *)
(* longer ago ("stale").                                                   *)
EarlierContext(state) ==
  [currentPort |-> 1, targetPort |-> NULL, startTime |-> "recent",
   attempts |-> IF state \in {"idle", "initiating", "restarting"} THEN 0
                ELSE 1,
   error |-> IF state = "failed" THEN "{}" ELSE "", restartId |-> 0]

LeftByEarlierPage ==
  {NoBlob} \cup
  {[state |-> state, context |-> EarlierContext(state)] :
     state \in {"initiating", "restarting", "reconnecting", "verifying",
                "completed", "failed"}}
  \cup {[state |-> "reconnecting",
          context |-> [EarlierContext("reconnecting")
                         EXCEPT !.startTime = "stale"]],
        [state |-> "verifying",
          context |-> [EarlierContext("verifying") EXCEPT !.targetPort = 2]]}

RestartInit ==
  /\ cm = InitCM
  /\ sockets = <<>>
  /\ timers = {}
  /\ waits = <<>>
  /\ sm = InitSM
  /\ storage \in LeftByEarlierPage
  /\ obs = InitObs
  /\ hc = InitHC
  /\ single = InitSingle
  /\ coord = InitCoord
  /\ lim = RestartLim

RestartNext ==
  \/ \E port \in 1..lim.ports : Connect(port)
  \/ \E s \in DOMAIN sockets : SocketOpens(s)
  \/ \E s \in DOMAIN sockets : SocketFails(s)
  \/ \E s \in DOMAIN sockets : SocketCloses(s)
  \/ \E s \in DOMAIN sockets : ConnectTimeout(s)
  \/ \E t \in timers : ReconnectTimerFires(t)
  \/ \E id \in DOMAIN waits : WaitTimeout(id)
  \/ \E s \in DOMAIN sockets, msg \in Messages : Message(s, msg)
  \/ \E p \in 1..lim.ports, q \in 0..lim.ports : Restart(p, q)
  \/ Reset
  \/ RestoreState
  \/ RestartingTimerFires
  \/ \E id \in FrameIds : RestartingDelayElapsed(id)
  \/ \E id \in FrameIds : RetryDelayElapsed(id)
  \/ \E id \in FrameIds, h \in BOOLEAN : HealthResult(id, h)
  \/ ResetTimerFires

(* The restart orchestrator driving its ConnectionManager. *)
RestartSpec == RestartInit /\ [][RestartNext]_vars

MaxListeners == 2         \* listeners are 1..MaxListeners

(* onStateChange(listener): Set.add, so a registered listener is not       *)
(* added twice; the returned function is Unsubscribe(listener).            *)
OnStateChange(listener) ==
  /\ listener \notin Range(sm.listeners)
  /\ Install([Quiet EXCEPT !.sm.listeners = Append(@, listener)])

Unsubscribe(listener) ==
  /\ listener \in Range(sm.listeners)
  /\ Install([Quiet EXCEPT !.sm.listeners = SelectSeqNot(@, listener)])

ListenInit ==
  /\ Fresh
  /\ storage = NoBlob
  /\ lim = [RestartLim EXCEPT !.restores = 0, !.listeners = MaxListeners]

ListenNext ==
  \/ \E port \in 1..lim.ports : Connect(port)
  \/ \E s \in DOMAIN sockets : SocketOpens(s)
  \/ \E s \in DOMAIN sockets : SocketFails(s)
  \/ \E s \in DOMAIN sockets : SocketCloses(s)
  \/ \E s \in DOMAIN sockets : ConnectTimeout(s)
  \/ \E t \in timers : ReconnectTimerFires(t)
  \/ \E p \in 1..lim.ports, q \in 0..lim.ports : Restart(p, q)
  \/ Reset
  \/ RestartingTimerFires
  \/ \E id \in FrameIds : RestartingDelayElapsed(id)
  \/ ResetTimerFires
  \/ \E listener \in 1..lim.listeners : OnStateChange(listener)
  \/ \E listener \in 1..lim.listeners : Unsubscribe(listener)

(* The restart orchestrator with listeners coming and going. *)
ListenSpec == ListenInit /\ [][ListenNext]_vars

----------------------------------------------------------------------------
(* ConnectionManagerSingleton *)

MaxInstances == 3         \* `new ConnectionManager' calls

DefaultConnectTimeout == 10000

(* { ...DEFAULT_SINGLETON_CONFIG, ...config }: NULL is a call without      *)
(* config.                                                                 *)
finalConfig(config) ==
  IF config = NULL THEN DefaultConnectTimeout ELSE config

(* getInstance(config) building an instance whenever a config is given. *)
getInstanceHonoursConfig(x, config) ==
  IF x.instance = NULL \/ config # NULL
  THEN [x EXCEPT !.instance = x.made + 1, !.made = @ + 1,
                 !.live = @ \cup {x.made + 1},
                 !.connectTimeout = finalConfig(config),
                 !.isInitialized = TRUE,
                 !.seen = [k |-> "get", value |-> x.made + 1]]
  ELSE [x EXCEPT !.seen = [k |-> "get", value |-> x.instance]]

getInstance(x, config) ==
  IF x.instance = NULL
  THEN [x EXCEPT !.instance = x.made + 1, !.made = @ + 1,
                 !.live = @ \cup {x.made + 1},
                 !.connectTimeout = finalConfig(config),
                 !.isInitialized = TRUE,
                 !.seen = [k |-> "get", value |-> x.made + 1]]
  ELSE [x EXCEPT !.seen = [k |-> "get", value |-> x.instance]]

hasInstance(x) == x.instance # NULL

(* ConnectionManager.destroy() *)
destroy(w) == [disconnect(w) EXCEPT !.cm.messageHandlers = <<>>]

(* The static reset() and destroy(), which have the same body. *)
dropInstance(x, by) ==
  IF x.instance # NULL
  THEN [x EXCEPT !.live = @ \ {x.instance}, !.instance = NULL,
                 !.isInitialized = FALSE, !.seen = [k |-> by]]
  ELSE [x EXCEPT !.seen = [k |-> by]]

(* getConnectionManager(config).  cm, sockets, timers and waits follow the *)
(* instance the singleton holds: a new instance starts as InitCM, and the  *)
(* sockets and timers of the destroyed one are no longer followed.         *)
GetConnectionManager(config) ==
  /\ single.made < MaxInstances \/ single.instance # NULL
  /\ single' = getInstance(single, config)
  /\ IF single.instance = NULL
     THEN /\ cm' = InitCM /\ sockets' = <<>> /\ timers' = {}
          /\ waits' = <<>>
     ELSE UNCHANGED <<cm, sockets, timers, waits>>
  /\ UNCHANGED <<sm, storage, obs, lim, hc, coord>>

(* ConnectionManagerSingleton.reset() and .destroy(), by name. *)
Dropped(by) ==
  LET d == Drain(IF single.instance # NULL THEN destroy(Quiet) ELSE Quiet)
  IN /\ cm' = d.cm /\ sockets' = d.sockets /\ timers' = d.timers
     /\ waits' = d.waits /\ obs' = d.obs
     /\ single' = dropInstance(single, by)
     /\ UNCHANGED <<sm, storage, lim, hc, coord>>

SingleInit ==
  /\ Fresh
  /\ lim = [ConnLim EXCEPT !.sockets = MsgSockets, !.timers = MsgTimers,
                           !.ports = 1]

SingleNext ==
  \/ \E config \in {NULL, 5000} : GetConnectionManager(config)
  \/ Dropped("reset")
  \/ Dropped("destroy")
  \/ single.instance # NULL /\ Connect(1)
  \/ \E s \in DOMAIN sockets : SocketOpens(s)
  \/ \E s \in DOMAIN sockets : SocketFails(s)
  \/ \E s \in DOMAIN sockets : SocketCloses(s)
  \/ \E t \in timers : ReconnectTimerFires(t)

(* The singleton and the use of the instance it holds. *)
SingleSpec == SingleInit /\ [][SingleNext]_vars

----------------------------------------------------------------------------
(* EndpointCoordinator *)

MaxPicks == 3             \* selections remembered in coord.picks

(* The first endpoint of `order' that is in `eligible', NULL if none. *)
FirstOf(order, eligible) ==
  LET at == {i \in DOMAIN order : order[i] \in eligible}
  IN IF at = {} THEN NULL
     ELSE order[CHOOSE i \in at : \A j \in at : i <= j]

Remember(picks, e) ==
  IF Len(picks) < MaxPicks THEN Append(picks, e)
  ELSE Append(Tail(picks), e)

Selected(c, e) ==
  IF e = NULL THEN [c EXCEPT !.seen = [k |-> "select", value |-> NULL]]
  ELSE [c EXCEPT !.order = Append(SelectSeqNot(@, e), e),
                 !.picks = Remember(@, e),
                 !.seen = [k |-> "select", value |-> e]]

(* selectBestConnection() taking the least recently used endpoint, healthy *)
(* or not.                                                                 *)
selectBestConnectionAnyHealth(c) ==
  Selected(c, FirstOf(c.order, Range(c.order)))

(* selectBestConnection(), round-robin strategy: of the endpoints that are *)
(* healthy now, the least recently used.                                   *)
selectBestConnection(c) ==
  Selected(c, FirstOf(c.order, {e \in DOMAIN c.healthy : c.healthy[e]}))

Coordinated(c) ==
  /\ coord' = c
  /\ UNCHANGED <<cm, sockets, timers, waits, sm, storage, obs, lim, hc,
                 single>>

SelectBestConnection ==
  Coordinated(selectBestConnection([coord EXCEPT !.seen = Nothing]))

(* The health-check loop or the endpoint's own reconnection changes the    *)
(* verdict on one endpoint; the endpoint stays configured.                 *)
EndpointTurns(e, healthy) ==
  /\ coord.healthy[e] # healthy
  /\ Coordinated([coord EXCEPT !.healthy[e] = healthy, !.picks = <<>>,
                               !.seen = Nothing])

CoordInit ==
  /\ Fresh
  /\ lim = ConnLim

CoordNext ==
  \/ SelectBestConnection
  \/ \E e \in 1..MaxEndpoints : EndpointTurns(e, FALSE)
  \/ \E e \in 1..MaxEndpoints : EndpointTurns(e, TRUE)

(* The coordinator's selection under changing endpoint health. *)
CoordSpec == CoordInit /\ [][CoordNext]_vars

----------------------------------------------------------------------------
(* HealthChecker *)
(*                                                                         *)
(* Time is Date.now() minus the time the page was loaded, in milliseconds; *)
(* the clock advances by Quantum.  A timer may fire late, never early.     *)

MaxTicks == 2              \* the clock stops after MaxTicks quanta
MaxProbes == 2             \* fetch() calls in flight at the same time
MaxCalls == 2              \* HealthChecker calls in progress at the same time

CACHE_TTL == 2000
FAILURE_TTL == 500
Quantum == 2 * FAILURE_TTL

(* The configuration the instance was constructed with. *)
ConfigTimeout == 1000
RetryInterval == 1000
MaxRetries == 2

UNDEFINED == -1

NoBody == [none |-> TRUE]

(* JSON bodies of a 2xx answer: timestamp 0 and uptime UNDEFINED are       *)
(* absent fields.                                                          *)
Body(status, timestamp, uptime) ==
  [status |-> status, timestamp |-> timestamp, uptime |-> uptime]

PlainBodies == {Body(s, 0, UNDEFINED) : s \in {"healthy", "unhealthy"}}

(* The result built from a 2xx answer whose body parsed to data. *)
resultOfBodyOkMeansHealthy(h, port, data) ==
  [healthy |-> TRUE,
   timestamp |-> IF data.timestamp # 0 THEN data.timestamp ELSE h.now,
   uptime |-> data.uptime, port |-> port, error |-> "", details |-> data]

resultOfBody(h, port, data) ==
  [healthy |-> data.status = "healthy",
   timestamp |-> IF data.timestamp # 0 THEN data.timestamp ELSE h.now,
   uptime |-> data.uptime, port |-> port, error |-> "", details |-> data]

(* The result built for a non-2xx answer ("http") or in the catch block    *)
(* ("abort", "transport", "malformed").                                    *)
resultOfFailure(h, port, error) ==
  [healthy |-> FALSE, timestamp |-> h.now, uptime |-> UNDEFINED,
   port |-> port, error |-> error, details |-> NoBody]

cacheSet(h, port, result, ttl) ==
  [h EXCEPT !.cache[port] =
     [result |-> result, expiry |-> h.now + ttl, written |-> h.now]]

(* `cached && Date.now() < cached.expiry' *)
cacheHit(h, port) ==
  /\ h.cache[port] # NoEntry
  /\ h.now < h.cache[port].expiry

Call(h, c) == CHOOSE x \in h.calls : x.id = c

PutCall(h, x) == [h EXCEPT !.calls = {y \in @ : y.id # x.id} \cup {x}]

EndCall(h, c, answer) ==
  [h EXCEPT !.calls = {y \in @ : y.id # c}, !.seen = answer]

(* verifyServiceRestart(oldTimestamp, port) after its await. *)
verifyOf(h, result, oldTimestamp) ==
  IF ~result.healthy THEN FALSE
  ELSE IF result.timestamp # 0 /\ result.timestamp > oldTimestamp THEN TRUE
  ELSE IF result.uptime # UNDEFINED
  THEN h.now - result.uptime * 1000 > oldTimestamp
  ELSE FALSE

(* The loop test of waitForServiceReady, then one more poll or the end;    *)
(* declared here, defined after getHealthStatus.                           *)
RECURSIVE getHealthStatus(_, _, _)

readyLoop(h, c) ==
  LET x == Call(h, c) IN
  IF h.now - x.start < x.timeout
  THEN getHealthStatus(PutCall(h, [x EXCEPT !.pos = "poll",
                                            !.polls = @ + 1]), c, x.port)
  ELSE EndCall(h, c, [k |-> "ready", port |-> x.port, value |-> FALSE,
                      start |-> x.start, timeout |-> x.timeout,
                      polls |-> x.polls, last |-> x.last])

(* checkMultiplePorts gives up at the first unhealthy port. *)
collectStopsAtFailure(h, c, port, result) ==
  LET x == Call(h, c)
      got == [p \in DOMAIN x.got \cup {port} |->
                IF p = port THEN result ELSE x.got[p]]
  IN IF ~result.healthy \/ (x.started /\ DOMAIN got = x.ports)
     THEN EndCall(h, c, [k |-> "many", ports |-> x.ports, results |-> got])
     ELSE PutCall(h, [x EXCEPT !.got = got])

(* checkMultiplePorts: results.set(port, result) in the callback of one    *)
(* port; the call ends when every callback has run.                        *)
collect(h, c, port, result) ==
  LET x == Call(h, c)
      got == [p \in DOMAIN x.got \cup {port} |->
                IF p = port THEN result ELSE x.got[p]]
  IN IF x.started /\ DOMAIN got = x.ports
     THEN EndCall(h, c, [k |-> "many", ports |-> x.ports, results |-> got])
     ELSE PutCall(h, [x EXCEPT !.got = got])

(* getHealthStatus(port) has a result for the call c that awaits it. *)
resume(h, c, port, result) ==
  LET x == Call(h, c) IN
  CASE x.k = "status" ->
         EndCall(h, c, [k |-> "status", port |-> port, result |-> result])
    [] x.k = "health" ->
         EndCall(h, c, [k |-> "health", port |-> port, result |-> result,
                        value |-> result.healthy])
    [] x.k = "verify" ->
         EndCall(h, c, [k |-> "verify", port |-> port, result |-> result,
                        old |-> x.old,
                        value |-> verifyOf(h, result, x.old)])
    [] x.k = "many" -> collect(h, c, port, result)
    [] x.k = "ready" ->
         IF result.healthy
         THEN EndCall(h, c, [k |-> "ready", port |-> port, value |-> TRUE,
                             start |-> x.start, timeout |-> x.timeout,
                             polls |-> x.polls, last |-> result])
         ELSE PutCall(h, [x EXCEPT !.pos = "delay", !.last = result,
                                   !.wake = h.now + RetryInterval])

(* getHealthStatus(port), called on behalf of call c: answered from the    *)
(* cache, or a fetch() is started with its abort timer.                    *)
getHealthStatus(h, c, port) ==
  LET h1 == [h EXCEPT !.cleared[port] = FALSE] IN
  IF cacheHit(h1, port)
  THEN resume(h1, c, port, h1.cache[port].result)
  ELSE [h1 EXCEPT !.fetches = @ \cup
          {[call |-> c, port |-> port, stage |-> "headers",
            abortAt |-> h1.now + ConfigTimeout]}]

(* The end of getHealthStatus(port): the result is cached and returned. *)
settle(h, f, result, ttl) ==
  resume(cacheSet([h EXCEPT !.fetches = @ \ {f}], f.port, result, ttl),
         f.call, f.port, result)

newCall(h, k, port) ==
  [id |-> SmallestUnused({x.id : x \in h.calls}), k |-> k, port |-> port,
   ports |-> {}, got |-> <<>>, started |-> FALSE, old |-> 0,
   start |-> h.now, timeout |-> 0, pos |-> "poll", polls |-> 0,
   last |-> NoBody, wake |-> 0]

(* An async method is entered: its activation record x is added. *)
enter(h, x) == [h EXCEPT !.calls = @ \cup {x}]

(* checkMultiplePorts(ports): ports.map starts getHealthStatus for every   *)
(* port in turn; Promise.all settles when the last of them has.            *)
RECURSIVE fanOut(_, _, _)
fanOut(h, c, ports) ==
  IF ports = {}
  THEN LET x == Call(h, c) IN
       IF DOMAIN x.got = x.ports
       THEN EndCall(h, c, [k |-> "many", ports |-> x.ports,
                           results |-> x.got])
       ELSE PutCall(h, [x EXCEPT !.started = TRUE])
  ELSE LET p == CHOOSE q \in ports : \A r \in ports : q <= r IN
       fanOut(getHealthStatus(h, c, p), c, ports \ {p})

(* clearCache(port); port 0 is a call without argument (`if (port)'). *)
clearCache(h, port) ==
  IF port # 0
  THEN [h EXCEPT !.cache[port] = NoEntry, !.cleared[port] = TRUE]
  ELSE [h EXCEPT !.cache = [p \in HealthPorts |-> NoEntry],
                 !.cleared = [p \in HealthPorts |-> TRUE]]

(* The checker as a callback finds it: what the owner saw is kept for one  *)
(* macrotask.                                                              *)
Checker == [hc EXCEPT !.seen = Nothing]

Ready(h) ==
  /\ Cardinality(h.fetches) <= lim.probes
  /\ Cardinality(h.calls) <= lim.calls
  /\ hc' = h
  /\ UNCHANGED <<cm, sockets, timers, waits, sm, storage, obs, lim, single,
               coord>>

(* Calls made by the owner of the HealthChecker *)

Start(k, port) ==
  LET x == newCall(Checker, k, port) IN
  Ready(getHealthStatus(enter(Checker, x), x.id, port))

GetHealthStatus(port) == Start("status", port)

CheckServiceHealth(port) == Start("health", port)

VerifyServiceRestart(oldTimestamp, port) ==
  LET x == [newCall(Checker, "verify", port) EXCEPT !.old = oldTimestamp] IN
  Ready(getHealthStatus(enter(Checker, x), x.id, port))

CheckMultiplePorts(ports) ==
  LET x == [newCall(Checker, "many", 0) EXCEPT !.ports = ports] IN
  Ready(fanOut(enter(Checker, x), x.id, ports))

(* waitForServiceReady(port, timeout); timeout 0 is a call without it. *)
WaitForServiceReady(port, timeout) ==
  LET x == [newCall(Checker, "ready", port) EXCEPT
              !.timeout = IF timeout # 0 THEN timeout
                          ELSE MaxRetries * RetryInterval]
  IN Ready(readyLoop(enter(Checker, x), x.id))

ClearCache(port) == Ready(clearCache(Checker, port))

(* Events of the platform: the clock, timers and HTTP answers *)

Tick ==
  /\ hc.now < lim.ticks * Quantum
  /\ Ready([Checker EXCEPT !.now = @ + Quantum])

(* The answer's status line and headers arrive: fetch() resolves and the   *)
(* abort timer is cleared; a non-2xx answer ends the call at once.         *)
ResponseArrives(f, ok) ==
  /\ f.stage = "headers"
  /\ IF ok
     THEN Ready([Checker EXCEPT !.fetches =
                   (@ \ {f}) \cup {[f EXCEPT !.stage = "body",
                                             !.abortAt = UNDEFINED]}])
     ELSE Ready(settle(Checker, f, resultOfFailure(Checker, f.port, "http"),
                       CACHE_TTL))

(* response.json() resolves with the parsed body. *)
BodyArrives(f, data) ==
  /\ f.stage = "body"
  /\ Ready(settle(Checker, f, resultOfBody(Checker, f.port, data), CACHE_TTL))

(* fetch() rejects (network error), or response.json() rejects (the body   *)
(* is no JSON, or the connection broke while it was read).                 *)
RequestFails(f) ==
  Ready(settle(Checker, f,
               resultOfFailure(Checker, f.port,
                               IF f.stage = "headers" THEN "transport"
                               ELSE "malformed"),
               FAILURE_TTL))

(* The abort timer fires: controller.abort() rejects the fetch(). *)
AbortTimerFires(f) ==
  /\ f.abortAt # UNDEFINED
  /\ hc.now >= f.abortAt
  /\ Ready(settle(Checker, f, resultOfFailure(Checker, f.port, "abort"),
                  FAILURE_TTL))

(* The delay(retryInterval) of waitForServiceReady call c is over. *)
RetryTimerFires(c) ==
  /\ Call(hc, c).k = "ready"
  /\ Call(hc, c).pos = "delay"
  /\ hc.now >= Call(hc, c).wake
  /\ Ready(readyLoop(Checker, c))

NoLim ==
  [sockets |-> 0, timers |-> 0, waits |-> 0, ports |-> 0, restarts |-> 0,
   restores |-> 0, calls |-> 0, probes |-> 0, ticks |-> 0, hports |-> 0,
   listeners |-> 0]

HealthInit ==
  /\ Fresh
  /\ lim = [NoLim EXCEPT !.calls = MaxCalls, !.probes = MaxProbes,
                         !.ticks = MaxTicks, !.hports = MaxHealthPort]

HealthNext ==
  \/ \E port \in 1..lim.hports : GetHealthStatus(port)
  \/ \E port \in 1..lim.hports : CheckServiceHealth(port)
  \/ Tick
  \/ \E f \in hc.fetches, ok \in BOOLEAN : ResponseArrives(f, ok)
  \/ \E f \in hc.fetches, data \in PlainBodies : BodyArrives(f, data)
  \/ \E f \in hc.fetches : RequestFails(f)
  \/ \E f \in hc.fetches : AbortTimerFires(f)

(* The HealthChecker's cache under concurrent callers. *)
HealthSpec == HealthInit /\ [][HealthNext]_vars

(* Restart verification: the service answers with a timestamp, an uptime  *)
(* in seconds, both or neither; the caller passes a time that is past.     *)
VerifyTicks == 3           \* the clock stops after VerifyTicks quanta

VerifyBodies ==
  {Body(s, t, u) : s \in {"healthy", "unhealthy"}, t \in {0, 1000, 2000},
                   u \in {UNDEFINED, 0, 2}}

VerifyInit ==
  /\ Fresh
  /\ lim = [NoLim EXCEPT !.calls = 1, !.probes = 1, !.ticks = VerifyTicks,
                         !.hports = 1]

VerifyNext ==
  \/ \E port \in 1..lim.hports, old \in {1000} :
       hc.now >= old /\ VerifyServiceRestart(old, port)
  \/ Tick
  \/ \E f \in hc.fetches, ok \in BOOLEAN : ResponseArrives(f, ok)
  \/ \E f \in hc.fetches, data \in VerifyBodies :
       data.timestamp <= hc.now /\ BodyArrives(f, data)
  \/ \E f \in hc.fetches : RequestFails(f)
  \/ \E f \in hc.fetches : AbortTimerFires(f)

(* The HealthChecker verifying that the service was restarted. *)
VerifySpec == VerifyInit /\ [][VerifyNext]_vars

(* Waiting for the service: timeout 0 is a call without the argument. *)
ReadyTicks == 4            \* the clock stops after ReadyTicks quanta

ReadyInit ==
  /\ Fresh
  /\ lim = [NoLim EXCEPT !.calls = 1, !.probes = 1, !.ticks = ReadyTicks,
                         !.hports = 1]

ReadyNext ==
  \/ \E port \in 1..lim.hports, timeout \in {0, 1000, 3000} :
       WaitForServiceReady(port, timeout)
  \/ Tick
  \/ \E f \in hc.fetches, ok \in BOOLEAN : ResponseArrives(f, ok)
  \/ \E f \in hc.fetches, data \in PlainBodies : BodyArrives(f, data)
  \/ \E f \in hc.fetches : RequestFails(f)
  \/ \E f \in hc.fetches : AbortTimerFires(f)
  \/ \E x \in hc.calls : RetryTimerFires(x.id)

(* The HealthChecker polling until the service is ready. *)
ReadySpec == ReadyInit /\ [][ReadyNext]_vars

FanInit ==
  /\ Fresh
  /\ lim = [NoLim EXCEPT !.calls = MaxCalls, !.probes = MaxProbes,
                         !.ticks = 1, !.hports = MaxHealthPort]

FanNext ==
  \/ \E ports \in SUBSET (1..lim.hports) : CheckMultiplePorts(ports)
  \/ \E port \in 1..lim.hports : GetHealthStatus(port)
  \/ \E port \in 0..lim.hports : ClearCache(port)
  \/ Tick
  \/ \E f \in hc.fetches, ok \in BOOLEAN : ResponseArrives(f, ok)
  \/ \E f \in hc.fetches, data \in PlainBodies : BodyArrives(f, data)
  \/ \E f \in hc.fetches : RequestFails(f)
  \/ \E f \in hc.fetches : AbortTimerFires(f)

(* The HealthChecker probing several ports, and its cache being cleared. *)
FanSpec == FanInit /\ [][FanNext]_vars

----------------------------------------------------------------------------
(* Claims *)

HappyPath ==
  <<"initiating", "restarting", "reconnecting", "verifying", "completed">>

IsPrefix(p, q) == Len(p) <= Len(q) /\ p = SubSeq(q, 1, Len(p))

(* No timer is armed, no handshake or close is under way, no deadline is   *)
(* running and no phase handler awaits anything but a nested transition:   *)
(* nothing more happens unless the owner calls in.                         *)
NothingPending ==
  /\ timers = {}
  /\ sm.restartingTimers = 0
  /\ sm.resetTimers = 0
  /\ \A s \in DOMAIN sockets :
       ~sockets[s].timeout /\ sockets[s].readyState = "OPEN"
  /\ \A i \in DOMAIN waits : ~waits[i].timer
  /\ \A f \in sm.frames : f.pos = "nested"

(* C1: after restart(currentPort) is accepted on a Connected connection,   *)
(* and as long as the remote re-opens its socket, confirms restarted=true  *)
(* and the health probe is healthy, the orchestrator enters Initiating,    *)
(* Restarting, Reconnecting, Verifying and Completed in exactly that       *)
(* order, and does not come to rest before Completed was entered.          *)
C1_ReachesCompleted ==
  obs.happy => /\ IsPrefix(obs.path, HappyPath)
               /\ NothingPending => obs.path = HappyPath

(* C2: when an accepted restart fails, the promise returned by restart()   *)
(* is rejected with the terminal error and the listeners have received     *)
(* Failed with that same error in the context.                             *)
C2_FailureRejectsPromise ==
  (/\ sm.state = "failed"
   /\ obs.lastCall = "accepted"
   /\ obs.restores = 0
   /\ sm.context # NoContext)
  => (/\ obs.outcome = "rejected"
      /\ obs.notified.state = "failed"
      /\ obs.notified.error = sm.context.error)

(* C3: whenever the orchestrator is in Completed or Failed, however it got *)
(* there, the delayed reset that takes it back to Idle and deletes the     *)
(* persisted blob is armed, so that it returns without anybody calling     *)
(* reset().                                                                *)
C3_TerminalReturnsToIdle ==
  (sm.state \in {"completed", "failed"}) => sm.resetTimers > 0

(* C4: in one unexpected-disconnect episode in which every reconnect       *)
(* attempt fails, connect() is retried at most maxReconnectAttempts times. *)
C4_RetriesBounded == obs.episode <= MaxReconnectAttempts

(* C5: the reconnect-attempt counter never exceeds maxReconnectAttempts.   *)
C5_CounterWithinCeiling == cm.reconnectAttempts <= MaxReconnectAttempts

C5_Witness ==
  /\ cm.reconnectAttempts = MaxReconnectAttempts
  /\ cm.connectionState = "reconnecting"

(* C6: restart() called while the state is not Idle is refused with the    *)
(* already-in-progress error and changes neither the state, nor the        *)
(* active context, nor anything else of the orchestrator, nor the          *)
(* persisted blob.                                                         *)
C6_SecondRestartRefused ==
  [][(sm.state # "idle" /\ \E p \in 1..lim.ports, q \in 0..lim.ports :
                              Restart(p, q))
     => (obs'.lastCall = "refused" /\ sm' = sm /\ storage' = storage)]_vars

C6_Witness ==
  /\ obs.lastCall = "refused"
  /\ sm.state \notin {"idle", "completed", "failed"}
  /\ sm.context # NoContext

(* C7: every waitForMessage call is settled exactly once, by the first     *)
(* matching message, by its timeout or by disconnect(); its entry leaves   *)
(* the pending map exactly once, at that moment, and whatever happens      *)
(* later settles nothing again.                                            *)
C7_SettledExactlyOnce ==
  \A i \in DOMAIN waits :
    /\ waits[i].settles <= 1
    /\ waits[i].removals <= 1
    /\ (waits[i].status = "pending") <=> (i \in cm.pendingMessages)
    /\ (waits[i].status = "pending")
         => (waits[i].settles = 0 /\ waits[i].removals = 0 /\ waits[i].timer
             /\ waits[i].matched = 0)
    /\ (waits[i].status # "pending")
         => (waits[i].settles = 1 /\ waits[i].removals = 1 /\ ~waits[i].timer)
    /\ (waits[i].status = "resolved") => (waits[i].matched >= 1)

C7_Witness ==
  \E i, j \in DOMAIN waits :
    /\ waits[i].status = "timeout" /\ waits[i].matched >= 1
    /\ waits[j].status = "resolved" /\ waits[j].matched >= 2
    /\ cm.connectionState = "disconnected"

(* C8: once a waitForMessage call is settled, its deadline timer and its   *)
(* one-shot handler are both gone.                                         *)
Registered == UNION {Range(cm.messageHandlers[t]) : t \in DOMAIN cm.messageHandlers}

C8_HandlerAndTimerReleased ==
  \A i \in DOMAIN waits :
    (waits[i].status # "pending") => (~waits[i].timer /\ i \notin Registered)

(* C9: disconnect() rejects every waitForMessage call in flight with the   *)
(* connection-closed error and leaves the pending map empty.               *)
C9_DisconnectRejectsAll ==
  [][Disconnect
     => (/\ cm'.pendingMessages = {}
         /\ \A i \in cm.pendingMessages : waits'[i].status = "closed"
         /\ \A i \in DOMAIN waits' : waits'[i].status # "pending")]_vars

C9_Witness ==
  /\ Len(waits) = 2
  /\ \A i \in DOMAIN waits : waits[i].status = "closed"

(* C10: disconnect() in any connection state leaves the manager            *)
(* Disconnected, with the counter at 0, no port and no reconnect timer     *)
(* pending.                                                                *)
C10_DisconnectQuiesces ==
  [][Disconnect
     => (/\ cm'.connectionState = "disconnected"
         /\ cm'.reconnectAttempts = 0
         /\ cm'.currentPort = NULL
         /\ cm'.reconnectTimer = NULL
         /\ timers' = {})]_vars

(* C11: connect(port) on a manager that is Connected to that port answers  *)
(* with the socket already in use, creates no socket, and leaves the       *)
(* state, the port, the reconnect counter and timer, the registered        *)
(* handlers and the pending requests as they were.                         *)
C11_ConnectIdempotent ==
  [][\A port \in 1..lim.ports :
       (/\ isConnected(Quiet)
        /\ cm.currentPort = port
        /\ Connect(port))
       => (/\ obs'.seen.k = "connect"
           /\ obs'.seen.ok
           /\ obs'.seen.handle = cm.currentConnection
           /\ cm' = cm
           /\ sockets' = sockets
           /\ timers' = timers
           /\ waits' = waits)]_vars

C11_Witness ==
  /\ obs.seen.k = "connect"
  /\ obs.seen.existing
  /\ obs.seen.handle = cm.currentConnection
  /\ cm.pendingMessages # {}
  /\ DOMAIN cm.messageHandlers # {}

(* A socket closed by a connect timeout before it ever opened. *)
TimedOut(s) ==
  /\ s \in DOMAIN sockets
  /\ ~sockets[s].opened
  /\ ~sockets[s].timeout
  /\ sockets[s].readyState = "CLOSING"

(* The manager is Failed because a connect() call timed out or could not   *)
(* construct its socket.                                                   *)
FailedByConnect ==
  /\ cm.connectionState = "failed"
  /\ cm.currentConnection = NULL \/ TimedOut(cm.currentConnection)

OwnerConnects == \E port \in 1..lim.ports : Connect(port)

(* A connect() call of the owner is rejected in this step, by its timeout  *)
(* or by the socket constructor.                                           *)
ConnectRejected ==
  /\ OwnerConnects \/ (\E s \in DOMAIN sockets : ConnectTimeout(s))
  /\ obs'.seen.k = "connect"
  /\ ~obs'.seen.ok

(* C12: when a connect() call of the owner is rejected by its timeout or   *)
(* by the socket constructor, the state is Failed when the rejection is    *)
(* seen, and the state stays Failed until the owner calls connect() or     *)
(* disconnect() again.                                                     *)
C12_FailedUntilNextCall ==
  [][/\ ConnectRejected => obs'.seen.state = "failed"
     /\ (FailedByConnect /\ ~(OwnerConnects \/ Disconnect))
          => cm'.connectionState = "failed"]_vars

(* C13: sendMessage() reaches the socket's send() exactly when the state   *)
(* is Connected and the current socket is open, and otherwise fails as     *)
(* unavailable without reaching any socket; a send() that throws is        *)
(* reported as a send failure; the call changes nothing in the manager.    *)
C13_SendOnlyWhenConnected ==
  [][SendMessage
     => LET open == /\ cm.connectionState = "connected"
                    /\ cm.currentConnection \in DOMAIN sockets
                    /\ sockets[cm.currentConnection].readyState = "OPEN"
            r == obs'.seen
        IN /\ r.k = "send"
           /\ (r.result = "unavailable") <=> ~open
           /\ r.to = (IF open THEN cm.currentConnection ELSE NULL)
           /\ open => ((r.result = "failed") <=> r.threw)
           /\ cm' = cm
           /\ sockets' = sockets
           /\ timers' = timers
           /\ waits' = waits]_vars

C13_Witness ==
  /\ obs.seen.k = "send"
  /\ obs.seen.result = "failed"
  /\ obs.seen.to = cm.currentConnection

(* The fetch() calls in flight for a port. *)
Probes(h, port) == {f \in h.fetches : f.port = port}

(* C14: per port, a getHealthStatus() call made while the cached entry is  *)
(* still valid is answered from the cache without a live call, a call made *)
(* with no valid entry makes one, and no live call is made while an        *)
(* earlier one for the same port is still in flight: at most one fetch()   *)
(* per port is ever under way.                                             *)
C14_OneLiveCallPerWindow ==
  [][\A port \in HealthPorts :
       /\ Cardinality(Probes(hc', port)) <= 1
       /\ GetHealthStatus(port)
            => IF cacheHit(hc, port)
               THEN /\ hc'.fetches = hc.fetches
                    /\ hc'.seen = [k |-> "status", port |-> port,
                                   result |-> hc.cache[port].result]
               ELSE Cardinality(Probes(hc', port))
                      = Cardinality(Probes(hc, port)) + 1]_vars

(* C15: every cache entry holding an unhealthy result expires FAILURE_TTL  *)
(* after it was written, every entry holding a healthy result CACHE_TTL    *)
(* after it was written.                                                   *)
C15_UnhealthyExpiresEarly ==
  \A port \in HealthPorts :
    hc.cache[port] # NoEntry
    => hc.cache[port].expiry - hc.cache[port].written
         = (IF hc.cache[port].result.healthy THEN CACHE_TTL ELSE FAILURE_TTL)

(* C17: a getHealthStatus() or checkServiceHealth() call ends with a       *)
(* result, never with an exception; the result is healthy exactly when it  *)
(* was built from a 2xx answer whose body declares the status "healthy";   *)
(* an abort by the timeout, a transport error, a non-2xx answer or a       *)
(* malformed body gives an unhealthy result; checkServiceHealth() returns  *)
(* the healthy flag of that result.                                        *)
C17_UnhealthyNeverThrown ==
  hc.seen.k \in {"status", "health"}
  => LET r == hc.seen.result IN
     /\ r.healthy <=> (r.details # NoBody /\ r.details.status = "healthy")
     /\ r.error \in {"abort", "transport", "http", "malformed"} => ~r.healthy
     /\ (r.details = NoBody) <=> (r.error # "")
     /\ hc.seen.k = "health" => hc.seen.value = r.healthy

C17_Witness ==
  /\ hc.seen.k = "health"
  /\ hc.seen.result.error = "abort"
  /\ ~hc.seen.value

(* The start time a body reports: its timestamp when it has one, else the  *)
(* current time minus its uptime; UNDEFINED when it has neither.           *)
ReportedStart(data, now) ==
  IF data.timestamp # 0 THEN data.timestamp
  ELSE IF data.uptime # UNDEFINED THEN now - data.uptime * 1000
  ELSE UNDEFINED

(* C16: verifyServiceRestart(old, port) answers true exactly when the      *)
(* result is healthy and the start time its body reports, by timestamp or  *)
(* by uptime, is strictly after old.                                       *)
C16_RestartedIffStartedLater ==
  hc.seen.k = "verify"
  => LET r == hc.seen.result IN
     hc.seen.value
       <=> (/\ r.healthy
            /\ ReportedStart(r.details, hc.now) # UNDEFINED
            /\ ReportedStart(r.details, hc.now) > hc.seen.old)

(* C18: a waitForServiceReady() call ends, with a value and never with an  *)
(* exception: it answers true only on a poll that reported healthy, false  *)
(* only when the overall timeout has elapsed and no poll reported healthy, *)
(* and as long as it has not answered it awaits something a pending timer  *)
(* will end: its retry delay, or a request whose abort timer is armed.     *)
C18_WaitEndsInTime ==
  /\ hc.seen.k = "ready"
       => IF hc.seen.value
          THEN hc.seen.polls > 0 /\ hc.seen.last.healthy
          ELSE /\ hc.now - hc.seen.start >= hc.seen.timeout
               /\ hc.seen.polls > 0 => ~hc.seen.last.healthy
  /\ \A x \in hc.calls :
       x.k = "ready"
       => \/ x.pos = "delay"
          \/ \E f \in hc.fetches : f.call = x.id /\ f.abortAt # UNDEFINED

(* The checkMultiplePorts() calls in progress. *)
Fans(h) == {x \in h.calls : x.k = "many"}

(* C19: checkMultiplePorts(ports) answers with a map that has an entry for *)
(* each requested port and for no other, each entry a result as            *)
(* getHealthStatus() builds it; while the call is in progress every port   *)
(* without an entry has its own request under way, and an entry, once      *)
(* set, is what the call returns for that port whatever the other ports    *)
(* answer.                                                                 *)
C19_EveryPortAnswered ==
  [][/\ hc'.seen.k = "many"
          => /\ DOMAIN hc'.seen.results = hc'.seen.ports
             /\ \A p \in hc'.seen.ports :
                  LET r == hc'.seen.results[p] IN
                  r.healthy <=> (r.details # NoBody
                                 /\ r.details.status = "healthy")
     /\ \A x \in Fans(hc') :
          \A p \in x.ports \ DOMAIN x.got :
            \E f \in hc'.fetches : f.call = x.id /\ f.port = p
     /\ \A x \in Fans(hc) :
          \A p \in DOMAIN x.got :
            \/ \E y \in Fans(hc') :
                 y.id = x.id /\ p \in DOMAIN y.got /\ y.got[p] = x.got[p]
            \/ /\ hc'.seen.k = "many"
               /\ p \in DOMAIN hc'.seen.results
               /\ hc'.seen.results[p] = x.got[p]]_vars

C19_Witness ==
  /\ hc.seen.k = "many"
  /\ hc.seen.ports = HealthPorts
  /\ hc.seen.results[1].healthy
  /\ hc.seen.results[2].error = "transport"

(* C20: clearCache(port) removes the entry of that port and of no other,   *)
(* clearCache() removes every entry, and the first getHealthStatus(port)   *)
(* made after the entry of the port was cleared makes a live call.         *)
C20_ClearForcesLiveCall ==
  [][/\ \A port \in HealthPorts :
          ClearCache(port)
          => /\ hc'.cache[port] = NoEntry
             /\ \A q \in HealthPorts \ {port} : hc'.cache[q] = hc.cache[q]
     /\ ClearCache(0) => \A q \in HealthPorts : hc'.cache[q] = NoEntry
     /\ \A port \in HealthPorts :
          (hc.cleared[port] /\ GetHealthStatus(port))
          => Cardinality(Probes(hc', port))
               = Cardinality(Probes(hc, port)) + 1]_vars

(* ---- C21 ---- *)
Stale == storage # NoBlob /\ storage.context.startTime # "recent"

FreshUnfinished ==
  /\ storage # NoBlob
  /\ storage.context.startTime = "recent"
  /\ storage.state \notin {"idle", "completed", "failed"}

Restored == obs'.restores = obs.restores + 1

(* C21: restoreState() on a blob older than the five-minute window returns *)
(* false, leaves the orchestrator Idle and deletes the blob; on a fresh    *)
(* blob of an unfinished phase, with no transition in flight, it returns   *)
(* true, adopts the persisted state and context and runs that phase's      *)
(* handler (whose only other outcome in the same task is Failed).          *)
C21_RestoreWithinWindow ==
  [][Restored =>
       /\ Stale => ( /\ obs'.seen = [k |-> "restore", value |-> FALSE]
                     /\ sm.state = "idle" /\ sm' = sm
                     /\ storage' = NoBlob )
       /\ (FreshUnfinished /\ sm.transitionPromise = NULL) =>
             ( /\ obs'.seen = [k |-> "restore", value |-> TRUE]
               /\ sm'.state \in {storage.state, "failed"}
               /\ sm'.context.restartId = storage.context.restartId
               /\ sm'.context.currentPort = storage.context.currentPort
               /\ sm'.context.startTime = storage.context.startTime
               /\ \A sendThrows \in BOOLEAN :
                    \E f \in restoreState(
                              Disturb(World(FALSE, sendThrows))).sm.frames :
                      f.st = storage.state )]_vars

C21_Witness ==
  /\ obs.seen = [k |-> "restore", value |-> TRUE]
  /\ sm.state = "reconnecting"
  /\ sm.context.restartId = 0
  /\ \E f \in sm.frames : f.st = "reconnecting"

(* ---- C22 ---- *)
Entered(state) == sm'.state = state /\ sm'.state # sm.state /\ ~Restored

TimedReset ==
  /\ sm.state \in {"completed", "failed"}
  /\ sm.resetTimers > 0
  /\ sm'.resetTimers = sm.resetTimers - 1

(* C22: the listener is called with the new state on every state change    *)
(* the orchestrator makes itself: on entering a phase, on the forced       *)
(* change to Failed, and on the timed return to Idle after Completed or    *)
(* Failed, so that its last observed state is the current state.           *)
C22_ListenerSeesEveryChange ==
  [][/\ \A state \in {"initiating", "restarting", "reconnecting",
                       "verifying", "completed", "failed"} :
          Entered(state) => obs'.notified.state = state
     /\ TimedReset => ( /\ sm'.state = "idle"
                        /\ obs'.notified.state = "idle" )]_vars

(* ---- C23 ---- *)
(* C23: a listener is only called while it is registered, so never after   *)
(* its unsubscribe function has run; and a round of calls reaches every    *)
(* registered listener, those after a throwing one included, and leaves    *)
(* the orchestrator in the state the listeners were told.                  *)
C23_ListenersIsolated ==
  [][/\ obs'.invoked \subseteq Range(sm.listeners)
     /\ obs'.invoked # {} => ( /\ obs'.invoked = Range(sm.listeners)
                               /\ obs'.notified.state = sm'.state
                               /\ sm'.listeners = sm.listeners )]_vars

C23_Witness ==
  /\ sm.listeners = <<1, 2>>
  /\ obs.invoked = {1, 2}
  /\ sm.state = "failed"
  /\ sm.context.currentPort = 1

(* ---- C24 ---- *)
(* C24: getConnectionManager() returns the instance already held, whatever *)
(* config a later call passes, until reset() or destroy(); after either    *)
(* hasInstance() is false and the next call makes an instance that no      *)
(* earlier call returned; and at most one instance is live at any time.    *)
C24_OneInstance ==
  [][/\ single'.seen.k = "get" =>
          ( /\ hasInstance(single')
            /\ single'.seen.value = single'.instance
            /\ IF hasInstance(single)
               THEN /\ single'.instance = single.instance
                    /\ single'.connectTimeout = single.connectTimeout
               ELSE single'.instance \notin 1..single.made )
     /\ single'.seen.k \in {"reset", "destroy"} => ~hasInstance(single')
     /\ Cardinality(single'.live) <= 1
     /\ single'.live = IF hasInstance(single') THEN {single'.instance}
                       ELSE {}]_vars

C24_Witness ==
  /\ single.seen = [k |-> "get", value |-> 2]
  /\ single.made = 2
  /\ single.connectTimeout = 5000

(* ---- C25 ---- *)
Healthy(c) == {e \in 1..MaxEndpoints : c.healthy[e]}

LastPicks(c, n) ==
  [i \in 1..n |-> c.picks[Len(c.picks) - n + i]]

(* C25: selectBestConnection() returns a healthy endpoint (none only when  *)
(* no endpoint is healthy); while the verdicts stand, any run of as many   *)
(* selections as there are healthy endpoints returns each of them once, so *)
(* an endpoint that is healthy again is selected within one round; and no  *)
(* endpoint ever leaves the configured set.                                *)
C25_RoundRobinOverHealthy ==
  /\ DOMAIN coord.healthy = 1..MaxEndpoints
  /\ Range(coord.order) = 1..MaxEndpoints
  /\ coord.seen # Nothing =>
       IF Healthy(coord) = {} THEN coord.seen.value = NULL
       ELSE coord.seen.value \in Healthy(coord)
  /\ Range(coord.picks) \subseteq Healthy(coord)
  /\ LET n == Cardinality(Healthy(coord))
     IN Len(coord.picks) >= n =>
          Range(LastPicks(coord, n)) = Healthy(coord)

C25_Witness ==
  /\ Healthy(coord) = {1, 3}
  /\ coord.picks = <<3, 1, 3>>
  /\ coord.seen = [k |-> "select", value |-> 3]

(* ---- C26 ---- *)
(* The doTransition calls whose handler is running or suspended at one of  *)
(* its own awaits; a handler awaiting the transition it requested itself   *)
(* has handed over and is not counted.                                     *)
Executing == {f \in sm.frames : f.pos # "nested"}

(* C26: at most one phase handler executes at any time, however the        *)
(* transitions were requested.                                             *)
C26_OneHandlerAtATime == Cardinality(Executing) <= 1

(* ---- C27 ---- *)
Pipeline ==
  <<"idle", "initiating", "restarting", "reconnecting", "verifying",
    "completed">>

(* One task takes at most one step down the pipeline, and a handler that   *)
(* throws in the same task ends it in Failed.                              *)
Allowed(from, to) ==
  \/ \E i \in 1..(Len(Pipeline) - 1) :
       from = Pipeline[i] /\ to = Pipeline[i + 1]
  \/ to = "failed" /\ from \in Range(Pipeline) \ {"completed"}
  \/ to = "idle" /\ from \in {"completed", "failed"}

(* reset() called by the owner, not by the timer of Completed or Failed. *)
OwnerReset == sm'.state = "idle" /\ sm'.resetTimers = sm.resetTimers

(* C27: the state only moves one step down the pipeline, from an           *)
(* unfinished phase to Failed, or from Completed or Failed to Idle; the    *)
(* adoption of a persisted phase by restoreState() and the owner's own     *)
(* reset() aside.                                                          *)
C27_PipelineOrder ==
  [][(sm'.state # sm.state /\ ~Restored /\ ~OwnerReset) =>
       Allowed(sm.state, sm'.state)]_vars

(* ---- C28 ---- *)
(* The sockets that can still fire an open or a message event. *)
Live ==
  {s \in DOMAIN sockets : sockets[s].readyState \in {"CONNECTING", "OPEN"}}

(* C28: the manager owns at most one live socket, its current connection;  *)
(* a socket replaced by disconnect() or by a newer connect() is closed and *)
(* delivers no open or message event any more.                             *)
C28_OnlyCurrentSocketLive ==
  /\ Cardinality(Live) <= 1
  /\ \A s \in Live : s = cm.currentConnection

(* ---- C29 ---- *)
(* The reconnect loop of frame f leaves handleReconnecting in this step,   *)
(* its last connect attempt having been made.                              *)
Exhausts(f) ==
  /\ f.st = "reconnecting" /\ f.pos = "connect"
  /\ f.attempt = MaxAttempts
  /\ \A g \in sm'.frames : g.id # f.id

(* C29: the reconnect loop makes at most maxAttempts attempts and          *)
(* context.attempts never exceeds it; listeners are told of each attempt;  *)
(* and when the last attempt has failed, the context still being the one   *)
(* the loop counts in and no other transition waiting its turn, the        *)
(* restart is Failed with the reconnection-exhausted error and Verifying   *)
(* has not been entered.                                                   *)
C29_ReconnectExhausts ==
  [][/\ \A f \in sm'.frames : f.attempt <= MaxAttempts
     /\ sm'.context # NoContext =>
          ( /\ sm'.context.attempts <= MaxAttempts
            /\ (sm.context # NoContext /\ ~Restored
                 /\ sm'.context.attempts # sm.context.attempts)
                => obs'.notified.attempts = sm'.context.attempts )
     /\ \A f \in sm.frames :
          (Exhausts(f) /\ sm.context # NoContext /\ sm.waiters = <<>>
           /\ sm.context.attempts = f.attempt /\ sm.state = f.st) =>
            ( /\ sm'.state = "failed"
              /\ sm'.context.error = ErrReconnectExhausted
              /\ sm'.context.attempts = MaxAttempts
              /\ obs'.notified.state = "failed"
              /\ \A g \in sm'.frames : g.st # "verifying" )]_vars

C29_Witness ==
  /\ sm.state = "failed"
  /\ sm.context # NoContext
  /\ sm.context.error = ErrReconnectExhausted
  /\ sm.context.attempts = MaxAttempts
  /\ obs.notified = [state |-> "failed", error |-> ErrReconnectExhausted,
                     attempts |-> MaxAttempts]
  /\ sm.frames = {}

(* ---- C30 ---- *)
Verifying == {f \in sm.frames : f.st = "verifying"}

(* The verification of frame f succeeds in this step: the response it got  *)
(* carried restarted = true and the probe of its target port, answering    *)
(* now, is healthy.                                                        *)
Passes(f) ==
  /\ f.pos = "health" /\ f.restarted
  /\ obs'.seen = [k |-> "probe", to |-> f.id, healthy |-> TRUE]

(* The verification of frame f succeeded earlier and its request for      *)
(* Completed is waiting for another transition to finish.                  *)
Passed(f) == f.pos = "nested" /\ f.restarted

(* The verification of frame f ends in this step. *)
Ends(f) == f.pos \in {"waitMsg", "health"} /\ \A g \in sm'.frames : g # f

Initiates ==
  /\ obs'.restarts = obs.restarts + 1
  /\ sm.transitionPromise = NULL

(* C31: when Initiating runs on a connection that is not Connected, no     *)
(* restartService message is handed to the connection, the connection is  *)
(* left as it is and the restart is Failed with the connection-unavailable *)
(* error; when the send fails the restart is Failed with the wrapped send  *)
(* error; in neither case is the transition to Restarting scheduled.       *)
C31_InitiatingFailsClean ==
  [][Initiates =>
       IF ~isConnected(Quiet)
       THEN /\ obs'.asked = <<>>
            /\ cm' = cm /\ sockets' = sockets
            /\ sm'.state = "failed"
            /\ sm'.context.error = ErrInitUnavailable
            /\ obs'.notified.state = "failed"
            /\ sm'.restartingTimers = sm.restartingTimers
       ELSE /\ Len(obs'.asked) = 1
            /\ obs'.asked[1] = "failed" =>
                 ( /\ sm'.state = "failed"
                   /\ sm'.context.error = ErrInitSend
                   /\ obs'.notified.state = "failed"
                   /\ sm'.restartingTimers = sm.restartingTimers )
            /\ obs'.asked[1] = "sent" =>
                 ( /\ sm'.state = "initiating"
                   /\ sm'.restartingTimers = sm.restartingTimers + 1 )]_vars

C31_Witness ==
  /\ obs.asked = <<"failed">>
  /\ sm.state = "failed"
  /\ sm.context.error = ErrInitSend
  /\ sm.restartingTimers = 0

(* A phase handler threw in this step while a restart held a context and   *)
(* no other transition() call was waiting for the running one.             *)
HandlerThrew(t) ==
  /\ t.st \notin {"completed", "failed"}
  /\ t.context
  /\ sm.waiters = <<>>

(* C32: when the handler of a non-terminal phase throws, the exception is  *)
(* caught and attached to context.error, the state becomes Failed without  *)
(* a transition of its own, the listeners are told of Failed with that     *)
(* error, and no call of the phase that threw is started again.            *)
C32_HandlerThrowFails ==
  [][\A i \in DOMAIN obs'.thrown :
       HandlerThrew(obs'.thrown[i]) =>
         /\ sm'.state = "failed"
         /\ sm'.context # NoContext
         /\ sm'.context.error = obs'.thrown[i].err
         /\ obs'.notified.state = "failed"
         /\ obs'.notified.error = obs'.thrown[i].err
         /\ \A f \in sm'.frames :
              f.st = obs'.thrown[i].st => f \in sm.frames]_vars

C32_Witness ==
  /\ Len(obs.thrown) = 1
  /\ obs.thrown[1].st = "verifying"
  /\ obs.thrown[1].context
  /\ sm.state = "failed"
  /\ obs.notified.state = "failed"
  /\ sm.context.error = obs.thrown[1].err


(* The state changes while the orchestrator holds a context. *)
Transits == sm'.state # sm.state /\ sm'.context # NoContext

(* The JSON text of a context as the last transition wrote it: the reconnect *)
(* loop counts context.attempts up between two transitions.                *)
AsPersisted(context, attempts) ==
  JsonRoundTrip([context EXCEPT !.attempts = attempts])

Called == [i \in DOMAIN obs'.handled |-> obs'.handled[i].handler]

(* C34: a message of type T reaches every handler registered for T when it *)
(* is dispatched, once each and in registration order, also after a        *)
(* handler that throws; no handler of another type is called, and a        *)
(* payload without a type tag calls no handler and changes nothing.        *)
C34_DispatchReachesAll ==
  [][obs'.seen.k = "message" =>
       LET type == obs'.seen.type IN
       /\ Called = IF type # "" /\ type \in DOMAIN cm.messageHandlers
                   THEN cm.messageHandlers[type] ELSE <<>>
       /\ \A i \in DOMAIN obs'.handled : obs'.handled[i].type = type
       /\ type = "" =>
            /\ cm' = cm /\ waits' = waits /\ sockets' = sockets
            /\ timers' = timers /\ sm' = sm /\ storage' = storage]_vars

C34_Witness ==
  /\ obs.seen.k = "message"
  /\ obs.seen.type = "restartStatus"
  /\ Len(obs.handled) = 3
  /\ obs.handled[1].handler \in ThrowingHandlers
  /\ obs.handled[2].handler \notin OwnerHandlers
  /\ obs.handled[3].handler \in OwnerHandlers
  /\ "restartVerificationResponse" \in DOMAIN cm.messageHandlers
  /\ "" \in DOMAIN cm.messageHandlers

(* C35: no message type is mapped to an empty set of handlers, whatever    *)
(* addMessageHandler, removeMessageHandler, removeAllMessageHandlers and   *)
(* the settling of waitForMessage calls did before.                        *)
C35_NoEmptyHandlerSet ==
  \A type \in DOMAIN cm.messageHandlers : cm.messageHandlers[type] # <<>>

C35_Witness ==
  /\ DOMAIN cm.messageHandlers = {"restartStatus"}
  /\ \E id \in DOMAIN waits :
       /\ waits[id].type = "restartVerificationResponse"
       /\ waits[id].status = "resolved"
  /\ cm.messageHandlers["restartStatus"] = <<-2>>


(* Socket s is not, or no longer, the manager's current connection. *)
Superseded(s) == s # cm.currentConnection

(* C36: the close event of a socket that the manager closed and that is   *)
(* no longer the current connection changes neither the connection state   *)
(* nor the reconnect timers.                                               *)
C36_StaleCloseIgnored ==
  [][\A s \in DOMAIN sockets :
       (Superseded(s) /\ sockets[s].readyState = "CLOSING"
        /\ SocketCloses(s)) =>
         /\ cm'.connectionState = cm.connectionState
         /\ timers' = timers]_vars

(* C37: the connect timeout of a connect() call whose socket is no longer  *)
(* the current connection neither closes the current socket nor changes    *)
(* the connection state.                                                   *)
C37_StaleTimeoutIgnored ==
  [][\A s \in DOMAIN sockets :
       (Superseded(s) /\ ConnectTimeout(s)) =>
         /\ cm'.connectionState = cm.connectionState
         /\ \A c \in DOMAIN sockets :
              c = cm.currentConnection =>
                /\ c \in DOMAIN sockets'
                /\ sockets'[c].readyState = sockets[c].readyState]_vars


(* A reconnect timer has called connect() since the last unexpected close  *)
(* and the owner has called neither connect() nor disconnect() since.      *)
Recovering == obs.episode > 0

(* Something is left that will move the connection on by itself: a         *)
(* reconnect timer that finds the state Reconnecting, or a socket that has *)
(* yet to open or fail.                                                    *)
AttemptPending ==
  \/ cm.connectionState = "reconnecting" /\ timers # {}
  \/ \E s \in DOMAIN sockets : sockets[s].readyState = "CONNECTING"

(* C38: while it recovers from an unexpected close the manager is not left *)
(* Reconnecting or Disconnected with no reconnect attempt pending: it goes *)
(* on until it is Connected or Failed.                                     *)
C38_NeverStranded ==
  (Recovering /\ cm.connectionState \in {"reconnecting", "disconnected"})
    => AttemptPending


(* A restart is under way that has neither ended nor recorded a failure:   *)
(* a delayed reset that is pending was scheduled by an earlier restart.    *)
Underway ==
  /\ sm.context # NoContext
  /\ sm.context.error = ""
  /\ sm.state \notin {"idle", "completed", "failed"}

(* C39: a delayed reset scheduled when an earlier restart ended leaves the *)
(* state, the context and the persisted blob of the restart under way as   *)
(* they are when it fires.                                                 *)
C39_StaleResetHarmless ==
  [][(Underway /\ ResetTimerFires) =>
       /\ sm'.state = sm.state
       /\ sm'.context = sm.context
       /\ storage' = storage]_vars


(* The owner starts or adopts a restart in this step. *)
Begins == obs'.restarts # obs.restarts \/ obs'.restores # obs.restores

(* C40: once reset() has made the orchestrator Idle with no context it     *)
(* stays so until the next restart() or restoreState(): nothing left over  *)
(* from the abandoned restart changes the state.                           *)
C40_ResetStaysIdle ==
  [][(sm.state = "idle" /\ sm.context = NoContext /\ ~Begins) =>
       (sm'.state = "idle" /\ sm'.context = NoContext)]_vars

====
